---- MODULE Spec2Model ----
(***************************************************************************)
(* Model of the Google Drive provisioning and batch-ingestion code of the  *)
(* backend: GoogleController (google.controller.js) handling one request   *)
(* at a time on a single-threaded event loop, and DriveRepository          *)
(* (drive.repository.js) against a remote folder store.                    *)
(*                                                                         *)
(* A remote call is a promise: it is issued ("inflight") by the handler    *)
(* and settled ("fulfilled" / "rejected") by the environment; the handler  *)
(* resumes in an action of its own once what it awaits is ready.           *)
(***************************************************************************)
EXTENDS Integers, Sequences, FiniteSets, TLC

\* ------------------------------------------------------------------ bounds
\* Most files in one multi-file form field (erpSusy, files).
MaxFiles == 3
\* Most files in one detail field of uploadNominasExcels.
MaxDetalle == 2
\* Most images the extraction service reports for one Excel.
MaxImages == 2

\* ---------------------------------------------------------------- values
Undefined == "<undefined>"
\* The value of a promise that has not settled.
Pending == [pending |-> TRUE]

PdfMime == "application/pdf"
OctetMime == "application/octet-stream"
PngMime == "image/png"
XlsxMime == "application/vnd.openxmlformats-officedocument.spreadsheetml.sheet"
XlsMime == "application/vnd.ms-excel"
XlsUpperMime == "APPLICATION/VND.MS-EXCEL"
XlsmMime == "application/vnd.ms-excel.sheet.macroEnabled.12"
XlsmLowerMime == "application/vnd.ms-excel.sheet.macroenabled.12"

\* Errors a remote call can reject with: `code` is the status the error
\* carries (NoCode when it carries none), `message` may be empty.
NoCode == 0
\* A message is kept as the list of its parts; <<>> is the empty string.
Errors ==
  { [message |-> <<"quota exceeded">>, code |-> 403],
    [message |-> <<>>, code |-> NoCode] }

\* All sequences over S of length lo..hi.
SeqsOf(S, lo, hi) == UNION { [1..n -> S] : n \in lo..hi }

\* ---------------------------------------------------------- configuration
\* The keys of drive-ids.json the controller reads through DriveRepository.
Keys ==
  { "imgs_alertas", "sw_prototipos", "versace_prototipos", "versace_pedidos",
    "intrastat_ventas", "intrastat_compras", "nominas_asesorias",
    "nominas_nominas", "inventario", "situacion_pedidos_pdf",
    "situacion_pedidos_dirma", "situacion_pedidos_versace",
    "situacion_pedidos_erp", "situacion_pedidos_sw" }

\* A folder id is modelled as the path of names from a configured root; the
\* id of an absent (or empty) configuration entry is <<>>.
NoId == <<>>
FullConfig == [k \in Keys |-> <<k>>]
Without(k) == [FullConfig EXCEPT ![k] = NoId]

\* _getFolderId: the entry, or a thrown Error (no code) when it is missing.
ConfigError(key) == [message |-> <<"Falta ID de carpeta", key>>, code |-> NoCode]

\* Every key counts as present.
HasFolderIdAlways(ids, key) == TRUE

\* !this.driveIds?.[key] is false.
HasFolderId(ids, key) == ids[key] # NoId
GetFolderId(ids, key) == ids[key]

\* The folder of the current day (generateDayFolderName, zone Madrid); the
\* clock does not change the day within one request.
DayFolderName == "DD-MM-YYYY"

\* The id the store gives to the folder reached from `parentId` by the names
\* of `path` (one name, or year and month for getOrCreateMesAnio).
FolderIdOf(path, parentId) == parentId \o path

\* ------------------------------------------------------------------ state
VARIABLES
  handler,      \* the endpoint the request is for
  req,          \* the parsed request (files, body fields)
  driveIds,     \* the configuration map of root folder ids
  pc,           \* the handler's position
  fcalls,       \* the folder resolutions the handler issued, in order
  tasks,        \* the uploads the handler issued, in order
  settleOrder,  \* indices of the uploads of a concurrent PDF batch, in the
                \* order they settled
  locals,       \* the handler's local lists (exitosos, fallidos, idsPdfs)
  call,         \* the single call the handler awaits outside fcalls / tasks
  responses,    \* the responses sent for the request, in order
  remoteCalls,  \* number of remote calls (store, use case, image service)
                \* issued so far
  store,        \* the folders of the remote store, in the order of creation;
                \* a folder's id is its position
  resolves,     \* the folder resolutions running against the store
  builds,       \* the createRecursiveFolders calls running against the store
  driveFiles,   \* the files uploadFile created in the store, each with the
                \* upload it belongs to and whether anyone may read it
  naming,       \* a text handed to generateFolderName and what the calls returned
  nextCalls     \* how often authMiddleware has called next() for the request

vars ==
  << handler, req, driveIds, pc, fcalls, tasks, settleOrder, locals, call,
     responses, remoteCalls, store, resolves, builds, driveFiles,
     naming, nextCalls >>

NoLocals == [exitosos |-> <<>>, fallidos |-> <<>>, idsPdfs |-> <<>>, values |-> <<>>]
NoCall ==
  [kind |-> "none", idx |-> 0, parent |-> NoId, stage |-> "single", folder |-> NoId,
   st |-> "idle", out |-> Pending]

\* No text has been handed to generateFolderName.
NoNaming == [input |-> <<>>, results |-> <<>>]

Settled(c) == c.st \in {"fulfilled", "rejected"}

\* ------------------------------------------------------ the HTTP response
\* error?.code || error?.response?.status || 500
ErrorStatus(e) == IF e.code # NoCode THEN e.code ELSE 500
\* error.response?.data?.error || error.message || "Error interno del servidor."
ErrorText(e) == IF e.message # <<>> THEN e.message ELSE <<"Error interno del servidor.">>
ErrorResponse(e) == [status |-> ErrorStatus(e), body |-> [error |-> ErrorText(e)]]
BadRequest(msg) == [status |-> 400, body |-> [error |-> msg]]

\* -------------------------------------------------- concurrent PDF batches
PdfBatchHandlers == {"uploadIntrastatPDF", "uploadInventarioPDF"}

\* req.files || []
ReqFiles(r) == IF r.multipart THEN r.files ELSE <<>>

\* !marca
Falsy(v) == v \in {Undefined, ""}

\* Only the first file whose media type is not allowed is named.
RECURSIVE InvalidNamesFirstOnly(_, _)
InvalidNamesFirstOnly(files, allowed) ==
  IF files = <<>> THEN <<>>
  ELSE IF Head(files).mimetype \in allowed THEN InvalidNamesFirstOnly(Tail(files), allowed)
  ELSE <<Head(files).originalname>>

\* files.filter((file) => !pdfMimeTypes.includes(file.mimetype)).map(name)
RECURSIVE InvalidNames(_, _)
InvalidNames(files, allowed) ==
  IF files = <<>> THEN <<>>
  ELSE (IF Head(files).mimetype \in allowed THEN <<>> ELSE <<Head(files).originalname>>)
       \o InvalidNames(Tail(files), allowed)

Valid == <<>>

\* The checks of uploadIntrastatPDF, in order; Valid when all pass.
ValidateNoMimeIntrastat(r) ==
  IF Len(ReqFiles(r)) = 0 THEN <<"Falta archivo(s)">>
  ELSE IF Falsy(r.marca) THEN <<"Falta el campo marca">>
  ELSE IF r.marca \notin {"COMPRA", "VENTA"} THEN <<"Marca no valida">>
  ELSE Valid

ValidateIntrastat(r) ==
  IF Len(ReqFiles(r)) = 0 THEN <<"Falta archivo(s)">>
  ELSE IF Falsy(r.marca) THEN <<"Falta el campo marca">>
  ELSE IF r.marca \notin {"COMPRA", "VENTA"} THEN <<"Marca no valida">>
  ELSE IF InvalidNames(ReqFiles(r), {PdfMime}) # <<>>
    THEN <<"Todos los archivos deben ser PDF">> \o InvalidNames(ReqFiles(r), {PdfMime})
  ELSE Valid

\* The checks of uploadInventarioPDF, in order.
ValidateInventario(r) ==
  IF Len(ReqFiles(r)) = 0 THEN <<"Falta archivo(s)">>
  ELSE IF InvalidNames(ReqFiles(r), {PdfMime}) # <<>>
    THEN <<"Todos los archivos deben ser PDF">> \o InvalidNames(ReqFiles(r), {PdfMime})
  ELSE Valid

\* The configuration key of the root the batch goes under.
PdfBatchKey(h, r) ==
  IF h = "uploadInventarioPDF" THEN "inventario"
  ELSE IF r.marca = "COMPRA" THEN "intrastat_compras" ELSE "intrastat_ventas"

\* A folder resolution as issued: find-or-create the folders of `path`
\* under `parent`.
NewFolderCall(path, parent) ==
  [path |-> path, parent |-> parent, st |-> "inflight", out |-> Pending]

\* The folder the resolution was asked under.
AwaitedParent(c) == c.parent

\* The id an awaited folder resolution yields.
AwaitedId(c) == IF c.st = "fulfilled" THEN c.out ELSE NoId

\* An upload as issued: uploadPdfUseCase.execute({file, ..., parentFolderId}).
NewTask(field, file, folderId) ==
  [field |-> field, file |-> file, folder |-> folderId, st |-> "inflight",
   out |-> Pending]

\* What a fulfilled upload of task number i yields (the store's metadata).
UploadResult(i, t) ==
  [id |-> <<t.field, i>>, name |-> t.file.originalname, targetFolderId |-> t.folder]

\* await Promise.allSettled(uploadPromises): ready once every upload settled.
AllSettledAtFirstRejection(ts) ==
  (\A i \in 1..Len(ts) : ts[i].st = "fulfilled")
  \/ (\E i \in 1..Len(ts) : ts[i].st = "rejected")

\* Ready only once every upload fulfilled.
AllSettledOnlyIfFulfilled(ts) == \A i \in 1..Len(ts) : ts[i].st = "fulfilled"

\* Ready once every upload settled, fulfilled or rejected.
AllSettled(ts) == \A i \in 1..Len(ts) : Settled(ts[i])

\* The entry pushed to exitosos for a fulfilled upload.
ExitosoEntry(v) == [id |-> v.id, name |-> v.name, folderId |-> v.targetFolderId]

\* The entry pushed to fallidos for the rejected upload of `file`:
\* resultado.reason?.message || "Error desconocido".
FallidoEntry(file, reason) ==
  [archivo |-> file.originalname,
   error |-> IF "message" \in DOMAIN reason /\ reason.message # <<>>
             THEN reason.message ELSE <<"Error desconocido">>]

\* resultados.forEach((resultado, index) => ...) from index k on, pushing to
\* the two lists of acc.
RECURSIVE ClassifyFrom(_, _, _, _)
ClassifyFrom(ts, files, k, acc) ==
  IF k > Len(ts) THEN acc
  ELSE ClassifyFrom(ts, files, k + 1,
         IF ts[k].st = "fulfilled"
         THEN [acc EXCEPT !.exitosos = Append(@, ExitosoEntry(ts[k].out))]
         ELSE [acc EXCEPT !.fallidos = Append(@, FallidoEntry(files[k], ts[k].out))])

\* The same lists filled in the order the uploads settled.
RECURSIVE ClassifyInOrder(_, _, _, _)
ClassifyInOrder(ts, files, order, acc) ==
  IF order = <<>> THEN acc
  ELSE ClassifyInOrder(ts, files, Tail(order),
         IF ts[Head(order)].st = "fulfilled"
         THEN [acc EXCEPT !.exitosos = Append(@, ExitosoEntry(ts[Head(order)].out))]
         ELSE [acc EXCEPT !.fallidos =
                 Append(@, FallidoEntry(files[Head(order)], ts[Head(order)].out))])

ClassifyBySettleOrder(ts, files) == ClassifyInOrder(ts, files, settleOrder, NoLocals)

Classify(ts, files) == ClassifyFrom(ts, files, 1, NoLocals)

\* fallidos.length === 0 ? 201 : exitosos.length === 0 ? 500 : 207
StatusCodeNoPartial(nExitosos, nFallidos) ==
  IF nFallidos = 0 THEN 201 ELSE 500

StatusCode(nExitosos, nFallidos) ==
  IF nFallidos = 0 THEN 201 ELSE IF nExitosos = 0 THEN 500 ELSE 207

\* The body of the batch response; fallidos is left out when it is empty
\* (fallidos.length > 0 ? fallidos : undefined).
ResumenTotalOfExitosos(files, ex, fa) ==
  [total |-> Len(ex), exitosos |-> Len(ex), fallidos |-> Len(fa)]

Resumen(files, ex, fa) ==
  [total |-> Len(files), exitosos |-> Len(ex), fallidos |-> Len(fa)]

BatchBody(files, ex, fa) ==
  IF Len(fa) > 0
  THEN [message |-> <<Len(ex), Len(files)>>, exitosos |-> ex, fallidos |-> fa,
        resumen |-> Resumen(files, ex, fa)]
  ELSE [message |-> <<Len(ex), Len(files)>>, exitosos |-> ex,
        resumen |-> Resumen(files, ex, fa)]

BatchResponse(files, ex, fa) ==
  [status |-> StatusCode(Len(ex), Len(fa)), body |-> BatchBody(files, ex, fa)]

\* uploadIntrastatPDF / uploadInventarioPDF up to the first await: the
\* validation, the configuration lookup, the call of executeFolderDia.
PdfBatchValidate(h, r) ==
  IF h = "uploadIntrastatPDF" THEN ValidateIntrastat(r) ELSE ValidateInventario(r)

PdfBatchBegin ==
  /\ handler \in PdfBatchHandlers
  /\ pc = "start"
  /\ IF PdfBatchValidate(handler, req) # Valid
     THEN /\ responses' = Append(responses, BadRequest(PdfBatchValidate(handler, req)))
          /\ pc' = "done"
          /\ UNCHANGED <<fcalls, remoteCalls>>
     ELSE IF ~HasFolderId(driveIds, PdfBatchKey(handler, req))
     THEN /\ responses' = Append(responses,
                                 ErrorResponse(ConfigError(PdfBatchKey(handler, req))))
          /\ pc' = "done"
          /\ UNCHANGED <<fcalls, remoteCalls>>
     ELSE /\ fcalls' = <<NewFolderCall(<<DayFolderName>>,
                                       GetFolderId(driveIds, PdfBatchKey(handler, req)))>>
          /\ remoteCalls' = remoteCalls + 1
          /\ pc' = "awaitFolder"
          /\ UNCHANGED responses
  /\ UNCHANGED <<nextCalls, naming, driveFiles, builds, store, resolves, handler, req,
                 driveIds, tasks, settleOrder, locals, call>>

\* const idCarpeta = await executeFolderDia(...): a rejection goes to the
\* catch block; otherwise files.map(...) issues every upload.
FolderReadyBeforeSettled(c) == TRUE

FolderReady(c) == Settled(c)

\* Only the upload of the first file is issued.
IssuedFirstOnly(files, folderId) == <<NewTask("files", files[1], folderId)>>

\* files.map((file) => this.uploadPdfUseCase.execute({...})): one upload per
\* file, all issued in the same pass.
IssuedUploads(files, folderId) ==
  [i \in 1..Len(files) |-> NewTask("files", files[i], folderId)]

PdfBatchStartUploads ==
  /\ handler \in PdfBatchHandlers
  /\ pc = "awaitFolder"
  /\ FolderReady(fcalls[1])
  /\ IF fcalls[1].st = "rejected"
     THEN /\ responses' = Append(responses, ErrorResponse(fcalls[1].out))
          /\ pc' = "done"
          /\ UNCHANGED <<tasks, remoteCalls>>
     ELSE /\ tasks' = IssuedUploads(ReqFiles(req), AwaitedId(fcalls[1]))
          /\ remoteCalls' = remoteCalls + Len(ReqFiles(req))
          /\ pc' = "awaitUploads"
          /\ UNCHANGED responses
  /\ UNCHANGED <<nextCalls, naming, driveFiles, builds, store, resolves, handler, req,
                 driveIds, fcalls, settleOrder, locals, call>>

\* After Promise.allSettled: classify, choose the status, answer.
PdfBatchRespond ==
  /\ handler \in PdfBatchHandlers
  /\ pc = "awaitUploads"
  /\ AllSettled(tasks)
  /\ locals' = Classify(tasks, ReqFiles(req))
  /\ responses' = Append(responses,
                         BatchResponse(ReqFiles(req), locals'.exitosos, locals'.fallidos))
  /\ pc' = "done"
  /\ UNCHANGED <<nextCalls, naming, driveFiles, builds, store, resolves, handler, req,
                 driveIds, fcalls, tasks, settleOrder, call, remoteCalls>>

\* ------------------------------------- sequential batch: uploadSituacionSW
PdfOrOctet == {PdfMime, OctetMime}
ExcelOrOctet == {XlsxMime, XlsMime, XlsmMime, OctetMime}

\* The checks of uploadSituacionSW, in order.
ValidateSW(r) ==
  IF ~r.multipart THEN <<"No se recibieron archivos">>
  ELSE IF Len(r.erpSusy) = 0 THEN <<"Falta al menos un archivo erpSusy">>
  ELSE IF Len(r.planningCliente) = 0 THEN <<"Falta el archivo planningCliente">>
  ELSE IF InvalidNames(r.erpSusy, PdfOrOctet) # <<>>
    THEN <<"debe ser un PDF", Head(InvalidNames(r.erpSusy, PdfOrOctet))>>
  ELSE IF r.planningCliente[1].mimetype \notin ExcelOrOctet
    THEN <<"planningCliente debe ser un Excel">>
  ELSE Valid

\* uploadExcelUseCase.executeFolderDia({file, ..., parentFolderId}) as issued:
\* it resolves the day folder under the parent, then uploads the file to it.
NewExcelDiaCall(file, parentId) ==
  [kind |-> "excel.executeFolderDia", idx |-> 0, parent |-> parentId,
   stage |-> "resolve", folder |-> NoId, st |-> "inflight", out |-> Pending]

\* The first missing key of `keys`, looked up in order; "" when none is.
RECURSIVE FirstMissing(_, _)
FirstMissing(ids, keys) ==
  IF keys = <<>> THEN ""
  ELSE IF ~HasFolderId(ids, Head(keys)) THEN Head(keys)
  ELSE FirstMissing(ids, Tail(keys))

SWKeys == <<"situacion_pedidos_erp", "situacion_pedidos_sw">>

SWBegin ==
  /\ handler = "uploadSituacionSW"
  /\ pc = "start"
  /\ IF ValidateSW(req) # Valid
     THEN /\ responses' = Append(responses, BadRequest(ValidateSW(req)))
          /\ pc' = "done"
          /\ UNCHANGED <<fcalls, remoteCalls>>
     ELSE IF FirstMissing(driveIds, SWKeys) # ""
     THEN /\ responses' = Append(responses,
                                 ErrorResponse(ConfigError(FirstMissing(driveIds, SWKeys))))
          /\ pc' = "done"
          /\ UNCHANGED <<fcalls, remoteCalls>>
     ELSE /\ fcalls' = <<NewFolderCall(<<DayFolderName>>,
                                       GetFolderId(driveIds, "situacion_pedidos_erp"))>>
          /\ remoteCalls' = remoteCalls + 1
          /\ pc' = "awaitFolder"
          /\ UNCHANGED responses
  /\ UNCHANGED <<nextCalls, naming, driveFiles, builds, store, resolves, handler, req,
                 driveIds, tasks, settleOrder, locals, call>>

\* const folderDiaERP = await executeFolderDia(...), then the first turn of
\* the loop issues the first upload.
SWStartLoop ==
  /\ handler = "uploadSituacionSW"
  /\ pc = "awaitFolder"
  /\ FolderReady(fcalls[1])
  /\ IF fcalls[1].st = "rejected"
     THEN /\ responses' = Append(responses, ErrorResponse(fcalls[1].out))
          /\ pc' = "done"
          /\ UNCHANGED <<tasks, remoteCalls>>
     ELSE /\ tasks' = <<NewTask("erpSusy", req.erpSusy[1],
                                AwaitedId(fcalls[1]))>>
          /\ remoteCalls' = remoteCalls + 1
          /\ pc' = "loop"
          /\ UNCHANGED responses
  /\ UNCHANGED <<nextCalls, naming, driveFiles, builds, store, resolves, handler, req,
                 driveIds, fcalls, settleOrder, locals, call>>

\* A failed upload leaves no entry in fallidos.
SWRecordFailureDropped(acc, t) ==
  IF t.st = "fulfilled"
  THEN [acc EXCEPT !.idsPdfs = Append(@, t.out.id),
                   !.exitosos = Append(@, [nombre |-> t.file.originalname, id |-> t.out.id])]
  ELSE acc

\* The loop body after `await this.uploadPdfUseCase.execute(...)` of the
\* upload issued last: push to idsPdfs / exitosos, or to fallidos in the
\* catch of the item.
SWRecord(acc, t) ==
  IF t.st = "fulfilled"
  THEN [acc EXCEPT !.idsPdfs = Append(@, t.out.id),
                   !.exitosos = Append(@, [nombre |-> t.file.originalname, id |-> t.out.id])]
  ELSE IF t.st = "rejected"
  THEN [acc EXCEPT !.fallidos =
          Append(@, [nombre |-> t.file.originalname, error |-> t.out.message])]
  ELSE acc

\* The await of the loop body: the loop goes on once the upload settled.
UploadAwaitedNotAtAll(t) == TRUE

UploadAwaited(t) == Settled(t)

\* try { ... } catch (error) { fallidos.push(...) } around the upload of one
\* item: whatever the outcome of the item, the loop goes on.
CaughtAtItemOnlyIfFulfilled(t) == t.st # "rejected"

CaughtAtItem(t) == TRUE

SWLoop ==
  /\ handler = "uploadSituacionSW"
  /\ pc = "loop"
  /\ UploadAwaited(tasks[Len(tasks)])
  /\ locals' = SWRecord(locals, tasks[Len(tasks)])
  /\ IF ~CaughtAtItem(tasks[Len(tasks)])
     THEN /\ responses' = Append(responses, ErrorResponse(tasks[Len(tasks)].out))
          /\ pc' = "done"
          /\ UNCHANGED <<tasks, call, remoteCalls>>
     ELSE IF Len(tasks) < Len(req.erpSusy)
     THEN /\ tasks' = Append(tasks, NewTask("erpSusy", req.erpSusy[Len(tasks) + 1],
                                            AwaitedId(fcalls[1])))
          /\ pc' = "loop"
          /\ UNCHANGED <<call, responses>>
          /\ remoteCalls' = remoteCalls + 1
     ELSE /\ call' = NewExcelDiaCall(req.planningCliente[1],
                                     GetFolderId(driveIds, "situacion_pedidos_sw"))
          /\ pc' = "awaitPlanning"
          /\ UNCHANGED <<tasks, responses>>
          /\ remoteCalls' = remoteCalls + 1
  /\ UNCHANGED <<nextCalls, naming, driveFiles, builds, store, resolves, handler, req,
                 driveIds, fcalls, settleOrder>>

\* After `await this.uploadExcelUseCase.executeFolderDia(...)`.
SWBody(acc, planning) ==
  [message |-> <<"subidos correctamente">>, ids_pdfs |-> acc.idsPdfs,
   id_excel |-> planning.id, exitosos |-> acc.exitosos, fallidos |-> acc.fallidos]

SWRespond ==
  /\ handler = "uploadSituacionSW"
  /\ pc = "awaitPlanning"
  /\ Settled(call)
  /\ responses' = Append(responses,
       IF call.st = "rejected" THEN ErrorResponse(call.out)
       ELSE [status |-> 201, body |-> SWBody(locals, call.out)])
  /\ pc' = "done"
  /\ UNCHANGED <<nextCalls, naming, driveFiles, builds, store, resolves, handler, req,
                 driveIds, fcalls, tasks, settleOrder, locals, call, remoteCalls>>

\* ------------------------------------------- uploadNominasExcels
NominasMimes == {XlsMime, XlsxMime, XlsmLowerMime}

\* file.mimetype.toLowerCase()
ToLowerCase(m) ==
  IF m = XlsUpperMime THEN XlsMime
  ELSE IF m = XlsmMime THEN XlsmLowerMime
  ELSE m

\* todosLosArchivos.filter(f => !excelMimeTypes.includes(f.mimetype.toLowerCase()))
RECURSIVE InvalidNamesLower(_, _)
InvalidNamesLower(files, allowed) ==
  IF files = <<>> THEN <<>>
  ELSE (IF ToLowerCase(Head(files).mimetype) \in allowed
        THEN <<>> ELSE <<Head(files).originalname>>)
       \o InvalidNamesLower(Tail(files), allowed)

\* The checks of uploadNominasExcels, in order.
ValidateNominas(r) ==
  IF ~r.multipart \/ Len(r.archivoResumen) = 0 THEN <<"Falta el archivo de nominas">>
  ELSE IF Len(r.archivosDetalle1) = 0 THEN <<"Faltan archivos de resumenes">>
  ELSE IF Len(r.archivosDetalle2) = 0 THEN <<"Faltan archivos de retenciones">>
  ELSE IF Falsy(r.anio) \/ Falsy(r.mes) THEN <<"Faltan los campos anio y/o mes">>
  ELSE IF InvalidNamesLower(<<r.archivoResumen[1]>> \o r.archivosDetalle1
                              \o r.archivosDetalle2, NominasMimes) # <<>>
    THEN <<"Todos los archivos deben ser Excel">>
         \o InvalidNamesLower(<<r.archivoResumen[1]>> \o r.archivosDetalle1
                                \o r.archivosDetalle2, NominasMimes)
  ELSE Valid

NominasKeys == <<"nominas_asesorias", "nominas_nominas">>

NominasBegin ==
  /\ handler = "uploadNominasExcels"
  /\ pc = "start"
  /\ IF ValidateNominas(req) # Valid
     THEN /\ responses' = Append(responses, BadRequest(ValidateNominas(req)))
          /\ pc' = "done"
          /\ UNCHANGED <<fcalls, remoteCalls>>
     ELSE IF FirstMissing(driveIds, NominasKeys) # ""
     THEN /\ responses' = Append(responses,
                 ErrorResponse(ConfigError(FirstMissing(driveIds, NominasKeys))))
          /\ pc' = "done"
          /\ UNCHANGED <<fcalls, remoteCalls>>
     ELSE /\ fcalls' = <<NewFolderCall(<<req.anio, req.mes>>,
                                       GetFolderId(driveIds, "nominas_asesorias"))>>
          /\ remoteCalls' = remoteCalls + 1
          /\ pc' = "awaitAnoMes"
          /\ UNCHANGED responses
  /\ UNCHANGED <<nextCalls, naming, driveFiles, builds, store, resolves, handler, req,
                 driveIds, tasks, settleOrder, locals, call>>

\* Paso 1, second await: getOrCreateMesAnio under the nominas root.
NominasAnoMesNomina ==
  /\ handler = "uploadNominasExcels"
  /\ pc = "awaitAnoMes"
  /\ FolderReady(fcalls[1])
  /\ IF fcalls[1].st = "rejected"
     THEN /\ responses' = Append(responses, ErrorResponse(fcalls[1].out))
          /\ pc' = "done"
          /\ UNCHANGED <<fcalls, remoteCalls>>
     ELSE /\ fcalls' = Append(fcalls, NewFolderCall(<<req.anio, req.mes>>,
                                        GetFolderId(driveIds, "nominas_nominas")))
          /\ remoteCalls' = remoteCalls + 1
          /\ pc' = "awaitAnoMesNomina"
          /\ UNCHANGED responses
  /\ UNCHANGED <<nextCalls, naming, driveFiles, builds, store, resolves, handler, req,
                 driveIds, tasks, settleOrder, locals, call>>

\* The two subfolders of the asesorias month are asked for by one name.
SubfolderCallsOneName(fs) ==
  << NewFolderCall(<<"RESUMEN">>, AwaitedId(fs[1])),
     NewFolderCall(<<"RESUMEN">>, AwaitedId(fs[1])),
     NewFolderCall(<<"NOMINAS">>, AwaitedId(fs[2])) >>

\* The array given to Promise.all: RETENCIONES and RESUMEN under
\* folderAnoMes, NOMINAS under folderAnoMesNomina.
SubfolderCalls(fs) ==
  << NewFolderCall(<<"RETENCIONES">>, AwaitedId(fs[1])),
     NewFolderCall(<<"RESUMEN">>, AwaitedId(fs[1])),
     NewFolderCall(<<"NOMINAS">>, AwaitedId(fs[2])) >>

\* Paso 2: the three createFolderIfNotExists calls, issued together.
NominasSubfolders ==
  /\ handler = "uploadNominasExcels"
  /\ pc = "awaitAnoMesNomina"
  /\ FolderReady(fcalls[2])
  /\ IF fcalls[2].st = "rejected"
     THEN /\ responses' = Append(responses, ErrorResponse(fcalls[2].out))
          /\ pc' = "done"
          /\ UNCHANGED <<fcalls, remoteCalls>>
     ELSE /\ fcalls' = fcalls \o SubfolderCalls(fcalls)
          /\ remoteCalls' = remoteCalls + 3
          /\ pc' = "awaitSubfolders"
          /\ UNCHANGED responses
  /\ UNCHANGED <<nextCalls, naming, driveFiles, builds, store, resolves, handler, req,
                 driveIds, tasks, settleOrder, locals, call>>

\* The handler resumes only when every promise fulfilled.
PromiseAllReadyOnlyFulfilled(cs) == \A i \in 1..Len(cs) : cs[i].st = "fulfilled"

\* await Promise.all(promises): ready when every promise fulfilled, or as
\* soon as one rejected.
PromiseAllReady(cs) ==
  (\A i \in 1..Len(cs) : cs[i].st = "fulfilled")
  \/ (\E i \in 1..Len(cs) : cs[i].st = "rejected")

\* The reason Promise.all rejects with: the one rejection there is when the
\* handler resumes.
FirstRejection(cs) ==
  (CHOOSE i \in 1..Len(cs) : cs[i].st = "rejected")

HasRejection(cs) == \E i \in 1..Len(cs) : cs[i].st = "rejected"

\* The detail files of the two categories go to each other's subfolder.
NominasTasksCrossed(r, fs) ==
  [i \in 1..Len(r.archivosDetalle2) |->
     NewTask("archivosDetalle2", r.archivosDetalle2[i], AwaitedId(fs[4]))]
  \o [i \in 1..Len(r.archivosDetalle1) |->
     NewTask("archivosDetalle1", r.archivosDetalle1[i], AwaitedId(fs[3]))]
  \o <<NewTask("archivoResumen", r.archivoResumen[1], AwaitedId(fs[5]))>>

\* Paso 3: every upload is issued: archivosDetalle2 to RETENCIONES,
\* archivosDetalle1 to RESUMEN, archivoResumen to NOMINAS.
NominasTasks(r, fs) ==
  [i \in 1..Len(r.archivosDetalle2) |->
     NewTask("archivosDetalle2", r.archivosDetalle2[i], AwaitedId(fs[3]))]
  \o [i \in 1..Len(r.archivosDetalle1) |->
     NewTask("archivosDetalle1", r.archivosDetalle1[i], AwaitedId(fs[4]))]
  \o <<NewTask("archivoResumen", r.archivoResumen[1], AwaitedId(fs[5]))>>

NominasStartUploads ==
  /\ handler = "uploadNominasExcels"
  /\ pc = "awaitSubfolders"
  /\ PromiseAllReady(SubSeq(fcalls, 3, 5))
  /\ IF HasRejection(SubSeq(fcalls, 3, 5))
     THEN /\ responses' = Append(responses,
                 ErrorResponse(fcalls[2 + FirstRejection(SubSeq(fcalls, 3, 5))].out))
          /\ pc' = "done"
          /\ UNCHANGED <<tasks, remoteCalls>>
     ELSE /\ tasks' = NominasTasks(req, fcalls)
          /\ remoteCalls' = remoteCalls + Len(NominasTasks(req, fcalls))
          /\ pc' = "awaitUploads"
          /\ UNCHANGED responses
  /\ UNCHANGED <<nextCalls, naming, driveFiles, builds, store, resolves, handler, req,
                 driveIds, fcalls, settleOrder, locals, call>>

\* The promise of one detail file: result.id, or null from its catch.
NullId == <<>>
DetailId(t) == IF t.st = "fulfilled" THEN t.out.id ELSE NullId

\* The nulls of the failed detail uploads stay in the list.
DetailIdsUnfiltered(ts, field) ==
  LET own == SelectSeq(ts, LAMBDA t : t.field = field)
  IN  [k \in 1..Len(own) |-> DetailId(own[k])]

\* ids.filter((id) => id !== null) over the detail uploads of `field`.
RECURSIVE DetailIds(_, _)
DetailIds(ts, field) ==
  IF ts = <<>> THEN <<>>
  ELSE (IF Head(ts).field = field /\ DetailId(Head(ts)) # NullId
        THEN <<DetailId(Head(ts))>> ELSE <<>>)
       \o DetailIds(Tail(ts), field)

\* The outer Promise.all of Paso 3: the detail promises never reject, the
\* archivoResumen upload may: ready when all settled, or as soon as the
\* archivoResumen upload rejected.
NominasUploadsReady(ts) ==
  AllSettled(ts) \/ ts[Len(ts)].st = "rejected"

NominasRespond ==
  /\ handler = "uploadNominasExcels"
  /\ pc = "awaitUploads"
  /\ NominasUploadsReady(tasks)
  /\ responses' = Append(responses,
       IF tasks[Len(tasks)].st = "rejected" THEN ErrorResponse(tasks[Len(tasks)].out)
       ELSE [status |-> 200,
             body |-> [id_excel_resumen |-> tasks[Len(tasks)].out.id,
                       ids_retenciones |-> DetailIds(tasks, "archivosDetalle2"),
                       ids_nominas |-> DetailIds(tasks, "archivosDetalle1")]])
  /\ pc' = "done"
  /\ UNCHANGED <<nextCalls, naming, driveFiles, builds, store, resolves, handler, req,
                 driveIds, fcalls, tasks, settleOrder, locals, call, remoteCalls>>

\* ------------------------------------------------ single-resource handlers
\* uploadImgAlert, uploadPrototypeExcel, uploadPedidoPdf,
\* uploadSituacionVersace, checkFolder, createFolderStructure: straight-line
\* code, one awaited call after the other.
SeqHandlers ==
  { "uploadImgAlert", "uploadPrototypeExcel", "uploadPedidoPdf",
    "uploadSituacionVersace", "checkFolder", "createFolderStructure" }

\* req.file.mimetype.startsWith("image/")
IsImage(m) == m \in {PngMime}

\* Of the four accepted types, the two that requests are drawn with.
PrototypeMimes == {XlsxMime, XlsMime}

ValidateImgAlert(r) ==
  IF Len(r.file) = 0 THEN <<"Falta archivo">>
  ELSE IF ~IsImage(r.file[1].mimetype) THEN <<"El archivo debe ser una imagen">>
  ELSE Valid

ValidatePrototype(r) ==
  IF Len(r.file) = 0 THEN <<"Falta archivo">>
  ELSE IF Falsy(r.marca) THEN <<"Falta el campo marca">>
  ELSE IF r.marca \notin {"STUART WEITZMAN", "VERSACE"} THEN <<"Marca no valida">>
  ELSE IF r.file[1].mimetype \notin PrototypeMimes THEN <<"El archivo debe ser un Excel">>
  ELSE Valid

ValidatePedido(r) ==
  IF Len(r.file) = 0 THEN <<"Falta archivo">>
  ELSE IF r.file[1].mimetype \notin {PdfMime} THEN <<"El archivo debe ser un PDF">>
  ELSE Valid

ValidateVersace(r) ==
  IF ~r.multipart THEN <<"No se recibieron archivos">>
  ELSE IF Len(r.informeFechas) = 0 THEN <<"Falta el archivo informeFechas">>
  ELSE IF Len(r.dirma) = 0 THEN <<"Falta el archivo dirma">>
  ELSE IF Len(r.informePasado) = 0 THEN <<"Falta el archivo informePasado">>
  ELSE IF Len(r.informeNuevo) = 0 THEN <<"Falta el archivo informeNuevo">>
  ELSE IF r.informeFechas[1].mimetype \notin PdfOrOctet
    THEN <<"informeFechas debe ser un PDF">>
  ELSE IF r.dirma[1].mimetype \notin ExcelOrOctet THEN <<"dirma debe ser un Excel">>
  ELSE IF r.informePasado[1].mimetype \notin ExcelOrOctet
    THEN <<"informePasado debe ser un Excel">>
  ELSE IF r.informeNuevo[1].mimetype \notin ExcelOrOctet
    THEN <<"informeNuevo debe ser un Excel">>
  ELSE Valid

ValidateCheckFolder(r) ==
  IF Falsy(r.idFileFolder) THEN <<"Falta idFileFolder">> ELSE Valid

ValidateStructure(r) ==
  IF ~r.hasStructure \/ Falsy(r.name) THEN <<"Falta estructura valida">> ELSE Valid

SeqValidate(h, r) ==
  CASE h = "uploadImgAlert" -> ValidateImgAlert(r)
    [] h = "uploadPrototypeExcel" -> ValidatePrototype(r)
    [] h = "uploadPedidoPdf" -> ValidatePedido(r)
    [] h = "uploadSituacionVersace" -> ValidateVersace(r)
    [] h = "checkFolder" -> ValidateCheckFolder(r)
    [] OTHER -> ValidateStructure(r)

\* The steps of a handler after its validation, in program order: a
\* configuration lookup ("config"), an awaited call ("await"), or the
\* permission grants that are issued and not awaited ("fire").
Step(op, arg) == [op |-> op, arg |-> arg, key |-> "", file |-> ""]
\* An awaited use case that resolves the day folder under the root of `key`.
StepUnder(op, arg, key) == [op |-> op, arg |-> arg, key |-> key, file |-> ""]
\* An awaited use case that uploads the file of the request field `file`.
StepUpload(op, arg, key, file) == [op |-> op, arg |-> arg, key |-> key, file |-> file]

Script(h, r) ==
  CASE h = "uploadImgAlert" ->
         << Step("config", "imgs_alertas"), Step("await", "image.execute") >>
    [] h = "uploadPrototypeExcel" ->
         << Step("await", "fetch"), Step("await", "json"),
            Step("config", IF r.marca = "STUART WEITZMAN"
                           THEN "sw_prototipos" ELSE "versace_prototipos"),
            Step("await", "excel.executeFolder"),
            Step("fire", "setPublicReadPermissions") >>
    [] h = "uploadPedidoPdf" ->
         << Step("config", "versace_pedidos"), Step("await", "pdf.execute") >>
    [] h = "uploadSituacionVersace" ->
         << Step("config", "situacion_pedidos_pdf"),
            Step("config", "situacion_pedidos_dirma"),
            Step("config", "situacion_pedidos_versace"),
            StepUnder("await", "pdf.executeFolderDia", "situacion_pedidos_pdf"),
            StepUpload("await", "pdf.execute", "", "informeFechas"),
            StepUpload("await", "excel.executeFolderDia",
                       "situacion_pedidos_dirma", "dirma"),
            StepUpload("await", "excel.executeFolderDia",
                       "situacion_pedidos_versace", "informePasado"),
            StepUpload("await", "excel.executeFolderDia",
                       "situacion_pedidos_versace", "informeNuevo") >>
    [] h = "checkFolder" -> << Step("await", "checkFolder.execute") >>
    [] OTHER -> << Step("await", "createFolderStructure.execute") >>

\* Where control stops when the script runs from step k: at the first await,
\* at the first lookup of a missing key (it throws), or past the end.
RECURSIVE StopAt(_, _, _)
StopAt(script, ids, k) ==
  IF k > Len(script) THEN k
  ELSE IF script[k].op = "await" THEN k
  ELSE IF script[k].op = "config" /\ ~HasFolderId(ids, script[k].arg) THEN k
  ELSE StopAt(script, ids, k + 1)

\* The catch block answers as if nothing had failed.
CatchResponseCreated(h, k, e) == [status |-> 201, body |-> [values |-> <<>>]]

\* The response of the catch block of handler h for error e thrown at step k.
CatchResponse(h, k, e) ==
  CASE h = "checkFolder" -> [status |-> 500, body |-> [error |-> ErrorText(e)]]
    [] h = "createFolderStructure" ->
         [status |-> 500, body |-> [error |-> <<"Error interno del servidor.">>]]
    [] h = "uploadPrototypeExcel" /\ k <= 2 ->
         [status |-> 500,
          body |-> [error |-> <<"Error al procesar el Excel con las APIs externas">>
                              \o e.message]]
    [] OTHER -> ErrorResponse(e)

\* The response a handler ends with when nothing failed.
SuccessResponse(h, vals) ==
  CASE h = "checkFolder" -> [status |-> 200, body |-> [values |-> vals]]
    [] OTHER -> [status |-> 201, body |-> [values |-> vals]]

\* A call as issued at step k of the script.
NewCall(kind, k, parentId) ==
  [kind |-> kind, idx |-> k, parent |-> parentId,
   stage |-> IF kind = "excel.executeFolderDia" THEN "resolve" ELSE "single",
   folder |-> NoId, st |-> "inflight", out |-> Pending]

\* The grants of uploadPrototypeExcel: one call per extracted image, none
\* awaited.
GrantTasks(n) ==
  [i \in 1..n |-> NewTask("grant", [originalname |-> "image", mimetype |-> PngMime], NoId)]

\* How many images the awaited json() value lists.
RECURSIVE ImagesIn(_)
ImagesIn(vals) ==
  IF vals = <<>> THEN 0
  ELSE IF "archivos" \in DOMAIN Head(vals) THEN Head(vals).archivos
  ELSE ImagesIn(Tail(vals))

\* Run the script from step k with the awaited values `vals`.
SeqRunFrom(k, vals) ==
  LET script == Script(handler, req)
      j == StopAt(script, driveIds, k)
      fires == \E i \in k..(j - 1) : i <= Len(script) /\ script[i].op = "fire"
  IN  /\ locals' = [locals EXCEPT !.values = vals]
      /\ IF j > Len(script)
         THEN /\ responses' = Append(responses, SuccessResponse(handler, vals))
              /\ pc' = "done"
              /\ tasks' = IF fires THEN GrantTasks(ImagesIn(vals)) ELSE tasks
              /\ remoteCalls' = remoteCalls + (IF fires THEN ImagesIn(vals) ELSE 0)
              /\ UNCHANGED call
         ELSE IF script[j].op = "config"
         THEN /\ responses' = Append(responses,
                     CatchResponse(handler, j, ConfigError(script[j].arg)))
              /\ pc' = "done"
              /\ UNCHANGED <<call, tasks, remoteCalls>>
         ELSE /\ call' = NewCall(script[j].arg, j,
                                   IF script[j].key = "" THEN NoId
                                   ELSE GetFolderId(driveIds, script[j].key))
              /\ remoteCalls' = remoteCalls + 1
              /\ pc' = "awaitCall"
              /\ UNCHANGED <<responses, tasks>>

SeqBegin ==
  /\ handler \in SeqHandlers
  /\ pc = "start"
  /\ IF SeqValidate(handler, req) # Valid
     THEN /\ responses' = Append(responses, BadRequest(SeqValidate(handler, req)))
          /\ pc' = "done"
          /\ UNCHANGED <<call, tasks, locals, remoteCalls>>
     ELSE SeqRunFrom(1, <<>>)
  /\ UNCHANGED <<nextCalls, naming, driveFiles, builds, store, resolves, handler, req,
                 driveIds, fcalls, settleOrder>>

\* No settled call throws.
ThrowsNever(c) == FALSE

\* The handler resumes after its awaited call settled: a rejection (or a
\* fetch response that is not ok) goes to the catch block, a value lets the
\* script go on.
Throws(c) ==
  c.st = "rejected" \/ (c.st = "fulfilled" /\ c.kind = "fetch" /\ ~c.out.ok)

Thrown(c) ==
  IF c.st = "rejected" THEN c.out
  ELSE [message |-> <<"Error en la API de imagenes">>, code |-> NoCode]

SeqResume ==
  /\ handler \in SeqHandlers
  /\ pc = "awaitCall"
  /\ Settled(call)
  /\ IF Throws(call)
     THEN /\ responses' = Append(responses, CatchResponse(handler, call.idx, Thrown(call)))
          /\ pc' = "done"
          /\ UNCHANGED <<call, tasks, locals, remoteCalls>>
     ELSE SeqRunFrom(call.idx + 1, Append(locals.values, call.out))
  /\ UNCHANGED <<nextCalls, naming, driveFiles, builds, store, resolves, handler, req,
                 driveIds, fcalls, settleOrder>>

\* Every step the handler itself takes.
HandlerStep ==
  \/ PdfBatchBegin \/ PdfBatchStartUploads \/ PdfBatchRespond
  \/ SWBegin \/ SWStartLoop \/ SWLoop \/ SWRespond
  \/ NominasBegin \/ NominasAnoMesNomina \/ NominasSubfolders
  \/ NominasStartUploads \/ NominasRespond
  \/ SeqBegin \/ SeqResume

\* The handler's continuation runs as a microtask, before the event loop
\* delivers the next settlement.
HandlerReady == ENABLED HandlerStep

\* ------------------------------------------------------------ environment
\* A folder resolution settles: the store answers with the folder's id, or
\* the call fails.
FolderSettles ==
  \E i \in 1..Len(fcalls) :
    /\ ~HandlerReady
    /\ fcalls[i].st = "inflight"
    /\ \/ fcalls' = [fcalls EXCEPT ![i].st = "fulfilled",
                                   ![i].out = FolderIdOf(fcalls[i].path, fcalls[i].parent)]
       \/ \E e \in Errors :
            fcalls' = [fcalls EXCEPT ![i].st = "rejected", ![i].out = e]
    /\ UNCHANGED <<nextCalls, naming, driveFiles, builds, store, resolves, handler, req,
                   driveIds, pc, tasks, settleOrder, locals, call, responses,
                   remoteCalls>>

\* An upload settles: the file is stored and its metadata returned, or the
\* call fails.
TaskSettlesAt(i) ==
  /\ ~HandlerReady
  /\ tasks[i].st = "inflight"
  /\ \/ tasks' = [tasks EXCEPT ![i].st = "fulfilled",
                               ![i].out = UploadResult(i, tasks[i])]
     \/ \E e \in Errors :
          tasks' = [tasks EXCEPT ![i].st = "rejected", ![i].out = e]
  /\ settleOrder' = IF handler \in PdfBatchHandlers
                    THEN Append(settleOrder, i) ELSE settleOrder
  /\ UNCHANGED <<nextCalls, naming, driveFiles, builds, store, resolves, handler, req,
                 driveIds, pc, fcalls, locals, call, responses, remoteCalls>>

TaskSettles == \E i \in 1..Len(tasks) : TaskSettlesAt(i)

\* The value a fulfilled call yields, by kind.
CallValue(c, ok, n) ==
  CASE c.kind = "fetch" -> [ok |-> ok]
    [] c.kind = "json" -> [archivos |-> n]
    [] c.kind = "pdf.executeFolderDia" ->
         [folderId |-> FolderIdOf(<<DayFolderName>>, c.parent)]
    [] OTHER -> [id |-> <<c.kind, c.idx>>]

\* The single awaited call settles; executeFolderDia of the Excel use case
\* first resolves the day folder, then uploads.
CallSettles ==
  /\ ~HandlerReady
  /\ call.st = "inflight"
  /\ \/ /\ call.stage = "resolve"
        /\ call' = [call EXCEPT !.stage = "upload",
                                !.folder = FolderIdOf(<<DayFolderName>>, call.parent)]
     \/ /\ call.stage # "resolve"
        /\ \E ok \in BOOLEAN, n \in 0..MaxImages :
             call' = [call EXCEPT !.st = "fulfilled", !.out = CallValue(call, ok, n)]
     \/ \E e \in Errors : call' = [call EXCEPT !.st = "rejected", !.out = e]
  /\ UNCHANGED <<nextCalls, naming, driveFiles, builds, store, resolves, handler, req,
                 driveIds, pc, fcalls, tasks, settleOrder, locals, responses,
                 remoteCalls>>

\* ------------------------------------------------------ folder resolution
\* DriveRepository.findFolderByName and createFolder against the store, and
\* the find-or-create built on them (FolderResolver.resolve).
\* Most folders the store holds before the first resolve call.
MaxPreexisting == 2
\* The two resolve calls.
Callers == {1, 2}
FolderNames == {"X", "Y"}
Root == "P"
OtherRoot == "Q"
NullFolder == 0

\* A folder of the store; `by` is the resolve call that created it, 0 for a
\* folder that was there before.
Folder(name, parent, trashed, by) ==
  [name |-> name, parent |-> parent, trashed |-> trashed, by |-> by]

\* The query without its trashed = false term.
QueryWithTrashed(st, folderName, parentId) ==
  {i \in 1..Len(st) : st[i].name = folderName /\ st[i].parent = parentId}

\* files.list with q: name = folderName, folder, parentId in parents,
\* trashed = false; pageSize 1.
QueryAnyParent(st, folderName, parentId) ==
  {i \in 1..Len(st) : st[i].name = folderName /\ ~st[i].trashed}

Query(st, folderName, parentId) ==
  {i \in 1..Len(st) :
     st[i].name = folderName /\ st[i].parent = parentId /\ ~st[i].trashed}

\* The values findFolderByName can return: search.data.files?.[0]?.id || null.
\* The query gives no order, so any match can be the first.
FindFolderByNameNeverFinds(st, folderName, parentId) == {NullFolder}

FindFolderByName(st, folderName, parentId) ==
  IF Query(st, folderName, parentId) = {} THEN {NullFolder}
  ELSE Query(st, folderName, parentId)

\* files.create: one more folder; file.data.id is the id the store gave it.
CreateFolderIfAbsent(st, name, parentId, by) ==
  IF \E i \in 1..Len(st) : st[i].name = name /\ st[i].parent = parentId
  THEN st ELSE Append(st, Folder(name, parentId, FALSE, by))

CreateFolder(st, name, parentId, by) == Append(st, Folder(name, parentId, FALSE, by))
CreatedIdAlwaysFirst(st) == 1

CreatedId(st) == Len(st)

\* A resolve call before it starts; `after` collects the calls that had
\* completed when this one started, `seen` is how many folders the store
\* held when the call's query was answered.
NewResolve(name, parentId) ==
  [name |-> name, parent |-> parentId, pc |-> "idle", result |-> NullFolder,
   after |-> {}, seen |-> 0]

Completed(r) == r.pc \in {"done", "failed"}

\* resolve(name, parentId) starts: step 1, the query is sent.
ResolveCall ==
  \E c \in Callers :
    /\ handler = "none"
    /\ resolves[c].pc = "idle"
    /\ resolves' = [resolves EXCEPT ![c].pc = "finding",
                      ![c].after = {d \in Callers : Completed(resolves[d])}]
    /\ UNCHANGED <<nextCalls, naming, driveFiles, builds, store, handler, req, driveIds,
                   pc, fcalls, tasks, settleOrder, locals, call, responses,
                   remoteCalls>>

\* The query is answered: step 2 returns the id found, step 3 sends the
\* create; a failed query ends the call.
ResolveQueried ==
  \E c \in Callers :
    /\ resolves[c].pc = "finding"
    /\ \/ \E id \in FindFolderByName(store, resolves[c].name, resolves[c].parent) :
            resolves' = IF id # NullFolder
                        THEN [resolves EXCEPT ![c].pc = "done", ![c].result = id,
                                              ![c].seen = Len(store)]
                        ELSE [resolves EXCEPT ![c].pc = "creating",
                                              ![c].seen = Len(store)]
       \/ resolves' = [resolves EXCEPT ![c].pc = "failed"]
    /\ UNCHANGED <<nextCalls, naming, driveFiles, builds, store, handler, req, driveIds,
                   pc, fcalls, tasks, settleOrder, locals, call, responses,
                   remoteCalls>>

\* The create is answered: the folder exists and its id is returned; a
\* failed create ends the call and leaves the store as it was.
ResolveCreated ==
  \E c \in Callers :
    /\ resolves[c].pc = "creating"
    /\ \/ /\ store' = CreateFolder(store, resolves[c].name, resolves[c].parent, c)
          /\ resolves' = [resolves EXCEPT ![c].pc = "done",
                                          ![c].result = CreatedId(store')]
       \/ /\ resolves' = [resolves EXCEPT ![c].pc = "failed"]
          /\ UNCHANGED store
    /\ UNCHANGED <<nextCalls, naming, driveFiles, builds, handler, req, driveIds, pc,
                   fcalls, tasks, settleOrder, locals, call, responses, remoteCalls>>

\* -------------------------------------------------------- folder trees
\* DriveRepository.createRecursiveFolders(folder, parentId).
\* Most nodes of a tree spec.
MaxNodes == 4
\* The two builds (two calls with the same spec and root).
Builders == {1, 2}
NodeNames == <<"A", "B", "C", "D", "E">>

\* A tree spec: nodes 1..n, node 1 on top, parent[k] < k the node whose
\* children list holds k; a children list is in ascending order of its nodes.
TreeSpecs ==
  UNION { { [n |-> n, parent |-> q] :
              q \in {f \in [2..n -> 1..n] : \A k \in 2..n : f[k] < k} } :
          n \in 1..MaxNodes }

\* folder.children of node k, in the order given.
RECURSIVE ChildrenFrom(_, _, _)
ChildrenFrom(t, k, j) ==
  IF j > t.n THEN <<>>
  ELSE (IF t.parent[j] = k THEN <<j>> ELSE <<>>) \o ChildrenFrom(t, k, j + 1)

\* Every child is listed twice.
ChildrenTwice(t, k) == ChildrenFrom(t, k, k + 1) \o ChildrenFrom(t, k, k + 1)

Children(t, k) == ChildrenFrom(t, k, k + 1)

\* for (const child of folder.children): the child of turn i.
ChildAtFromEnd(ch, i) == ch[Len(ch) + 1 - i]

ChildAt(ch, i) == ch[i]

\* The parent given to the recursive call for a child: newFolderId.
ChildParentSameAsOwn(f) == f.parent

ChildParent(f) == f.id

\* One activation of createRecursiveFolders: its node, its parentId, its
\* newFolderId once the create has fulfilled, the turn of its loop.
Frame(node, parentId) == [node |-> node, parent |-> parentId, id |-> NullFolder, next |-> 1]

\* Control after the create of the top frame fulfilled or a recursive call
\* returned: the stack at the next awaited create, <<>> when the outermost
\* call returns.
RECURSIVE Resume(_, _)
Resume(t, stack) ==
  LET f == stack[Len(stack)]
      ch == Children(t, f.node)
  IN  IF f.next <= Len(ch)
      THEN Append(stack, Frame(ChildAt(ch, f.next), ChildParent(f)))
      ELSE IF Len(stack) = 1 THEN <<>>
      ELSE Resume(t, [SubSeq(stack, 1, Len(stack) - 1)
                        EXCEPT ![Len(stack) - 1].next = @ + 1])

\* A rejected create: no activation catches it, so every one of them ends.
UnwindOneFrame(t, stack) ==
  IF Len(stack) = 1 THEN <<>>
  ELSE Resume(t, [SubSeq(stack, 1, Len(stack) - 1) EXCEPT ![Len(stack) - 1].next = @ + 1])

Unwind(t, stack) == <<>>

NoResponse == [status |-> 0, body |-> [error |-> <<>>]]

\* A build before it starts. `log` lists its create calls as they are
\* requested ("req") and answered ("ok" / "fail").
NewBuild(t, parentId) ==
  [spec |-> t, root |-> parentId, pc |-> "idle", stack |-> <<>>, result |-> NullFolder,
   log |-> <<>>, response |-> NoResponse]

Event(ev, node) == [ev |-> ev, node |-> node]

\* createRecursiveFolders(spec, rootParentId) is called: the create of the
\* top node is requested.
TreeCall ==
  \E b \in Builders :
    /\ builds[b].pc = "idle"
    /\ builds' = [builds EXCEPT ![b].pc = "creating",
                                ![b].stack = <<Frame(1, builds[b].root)>>,
                                ![b].log = <<Event("req", 1)>>]
    /\ UNCHANGED <<nextCalls, naming, driveFiles, store, resolves, handler, req,
                   driveIds, pc, fcalls, tasks, settleOrder, locals, call, responses,
                   remoteCalls>>

\* The awaited create fulfils: the folder exists; the build goes on to its
\* next create, or returns the id of the top folder and the endpoint
\* answers 201.
TreeCreated ==
  \E b \in Builders :
    LET B == builds[b]
        f == B.stack[Len(B.stack)]
        made == [B.stack EXCEPT ![Len(B.stack)].id = CreatedId(store')]
        next == Resume(B.spec, made)
    IN  /\ B.pc = "creating"
        /\ store' = CreateFolder(store, NodeNames[f.node], f.parent, b)
        /\ builds' =
             IF next = <<>>
             THEN [builds EXCEPT ![b].pc = "done", ![b].stack = <<>>,
                                 ![b].result = made[1].id,
                                 ![b].log = Append(@, Event("ok", f.node)),
                                 ![b].response = SuccessResponse("createFolderStructure", <<>>)]
             ELSE [builds EXCEPT ![b].stack = next,
                                 ![b].log = @ \o << Event("ok", f.node),
                                                    Event("req", next[Len(next)].node) >>]
        /\ UNCHANGED <<nextCalls, naming, driveFiles, resolves, handler, req, driveIds,
                       pc, fcalls, tasks, settleOrder, locals, call, responses,
                       remoteCalls>>

\* The awaited create rejects: the error passes every activation and the
\* endpoint's catch block answers.
TreeCreateFails ==
  \E b \in Builders, e \in Errors :
    LET B == builds[b]
        f == B.stack[Len(B.stack)]
        next == Unwind(B.spec, B.stack)
    IN  /\ B.pc = "creating"
        /\ builds' =
             IF next = <<>>
             THEN [builds EXCEPT ![b].pc = "failed", ![b].stack = <<>>,
                                 ![b].log = Append(@, Event("fail", f.node)),
                                 ![b].response = CatchResponse("createFolderStructure", 1, e)]
             ELSE [builds EXCEPT ![b].stack = next,
                                 ![b].log = @ \o << Event("fail", f.node),
                                                    Event("req", next[Len(next)].node) >>]
        /\ UNCHANGED <<nextCalls, naming, driveFiles, store, resolves, handler, req,
                       driveIds, pc, fcalls, tasks, settleOrder, locals, call,
                       responses, remoteCalls>>

NoResolves == [c \in Callers |-> NewResolve("X", Root)]

\* The folder the trees are built under.
TreeRootId == 1
NoBuilds == [b \in Builders |-> NewBuild([n |-> 1, parent |-> <<>>], TreeRootId)]

InitTree ==
  /\ handler = "none"
  /\ req = [multipart |-> FALSE]
  /\ driveIds = FullConfig
  /\ pc = "idle"
  /\ fcalls = <<>>
  /\ tasks = <<>>
  /\ settleOrder = <<>>
  /\ locals = NoLocals
  /\ call = NoCall
  /\ responses = <<>>
  /\ remoteCalls = 0
  /\ store = <<Folder("root", Root, FALSE, 0)>>
  /\ resolves = NoResolves
  /\ \E t \in TreeSpecs : builds = [b \in Builders |-> NewBuild(t, TreeRootId)]
  /\ driveFiles = {}
  /\ nextCalls = 0
  /\ naming = NoNaming

NextTree == TreeCall \/ TreeCreated \/ TreeCreateFails

SpecTree == InitTree /\ [][NextTree]_vars

\* The builds with a store that answers every create call it is sent.
CreateSettles == TreeCreated \/ TreeCreateFails
NextTreeFair == TreeCall \/ TreeCreated \/ TreeCreateFails
SpecTreeFair == InitTree /\ [][NextTreeFair]_vars /\ WF_vars(CreateSettles)


\* ------------------------------------------- folder resolution, as a whole
\* The folders the store can hold before the calls.
PreFolders ==
  { Folder("X", Root, FALSE, 0), Folder("X", Root, TRUE, 0),
    Folder("X", OtherRoot, FALSE, 0), Folder("Y", Root, FALSE, 0) }

InitResolve ==
  /\ handler = "none"
  /\ req = [multipart |-> FALSE]
  /\ driveIds = FullConfig
  /\ pc = "idle"
  /\ fcalls = <<>>
  /\ tasks = <<>>
  /\ settleOrder = <<>>
  /\ locals = NoLocals
  /\ call = NoCall
  /\ responses = <<>>
  /\ remoteCalls = 0
  /\ store \in SeqsOf(PreFolders, 0, MaxPreexisting)
  /\ resolves \in [Callers -> {NewResolve(n, Root) : n \in FolderNames}]
  /\ builds = NoBuilds
  /\ driveFiles = {}
  /\ nextCalls = 0
  /\ naming = NoNaming

NextResolve == ResolveCall \/ ResolveQueried \/ ResolveCreated

SpecResolve == InitResolve /\ [][NextResolve]_vars

\* ------------------------------------------------------------- requests
File(name, mime) == [originalname |-> name, mimetype |-> mime]

\* The files a PDF field is filled from: two PDFs and a file that is none.
PdfFiles == {File("a.pdf", PdfMime), File("b.pdf", PdfMime), File("b.pdf", PngMime)}
ErpFiles == {File("a.pdf", PdfMime), File("b.pdf", OctetMime), File("b.pdf", PngMime)}
DetalleFiles == {File("d.xls", XlsUpperMime), File("d.txt", PngMime)}
OneOf(files) == {<<>>} \cup {<<f>> : f \in files}

Requests(h) ==
  CASE h = "uploadIntrastatPDF" ->
         { [multipart |-> TRUE, files |-> fs, marca |-> m] :
             fs \in SeqsOf(PdfFiles, 0, MaxFiles),
             m \in {Undefined, "COMPRA", "VENTA", "OTRA"} }
         \cup {[multipart |-> FALSE, files |-> <<>>, marca |-> "COMPRA"]}
    [] h = "uploadInventarioPDF" ->
         { [multipart |-> TRUE, files |-> fs] : fs \in SeqsOf(PdfFiles, 0, MaxFiles) }
         \cup {[multipart |-> FALSE, files |-> <<>>]}
    [] h = "uploadSituacionSW" ->
         { [multipart |-> TRUE, erpSusy |-> fs, planningCliente |-> p] :
             fs \in SeqsOf(ErpFiles, 0, MaxFiles),
             p \in OneOf({File("p.xlsx", XlsmMime), File("p.pdf", PdfMime)}) }
         \cup {[multipart |-> FALSE, erpSusy |-> <<>>, planningCliente |-> <<>>]}
    [] h = "uploadNominasExcels" ->
         { [multipart |-> TRUE, archivoResumen |-> a, archivosDetalle1 |-> d1,
            archivosDetalle2 |-> d2, anio |-> y, mes |-> m] :
             a \in OneOf({File("n.xlsm", XlsmMime), File("n.pdf", PdfMime)}),
             d1 \in SeqsOf(DetalleFiles, 0, MaxDetalle),
             d2 \in SeqsOf(DetalleFiles, 0, MaxDetalle),
             y \in {Undefined, "2025"}, m \in {"", "03"} }
         \cup {[multipart |-> FALSE, archivoResumen |-> <<>>, archivosDetalle1 |-> <<>>,
                archivosDetalle2 |-> <<>>, anio |-> "2025", mes |-> "03"]}
    [] h = "uploadSituacionVersace" ->
         { [multipart |-> TRUE, informeFechas |-> f, dirma |-> d, informePasado |-> p,
            informeNuevo |-> n] :
             f \in OneOf({File("f.pdf", OctetMime), File("f.png", PngMime)}),
             d \in OneOf({File("d.xlsx", XlsxMime), File("d.pdf", PdfMime)}),
             p \in OneOf({File("p.xls", XlsMime), File("p.pdf", PdfMime)}),
             n \in OneOf({File("n.xlsm", XlsmMime), File("n.pdf", PdfMime)}) }
         \cup {[multipart |-> FALSE, informeFechas |-> <<>>, dirma |-> <<>>,
                informePasado |-> <<>>, informeNuevo |-> <<>>]}
    [] h = "uploadImgAlert" ->
         { [file |-> f] : f \in OneOf({File("i.png", PngMime), File("i.pdf", PdfMime)}) }
    [] h = "uploadPedidoPdf" ->
         { [file |-> f] : f \in OneOf({File("o.pdf", PdfMime), File("o.png", PngMime)}) }
    [] h = "uploadPrototypeExcel" ->
         { [file |-> f, marca |-> m] :
             f \in OneOf({File("x.xlsx", XlsxMime), File("x.pdf", PdfMime)}),
             m \in {Undefined, "STUART WEITZMAN", "VERSACE", "COMPRA"} }
    [] h = "checkFolder" ->
         { [idFileFolder |-> i] : i \in {Undefined, "", "folder-1"} }
    [] OTHER ->
         { [hasStructure |-> b, name |-> n] :
             b \in BOOLEAN, n \in {Undefined, "", "A"} }

Handlers == PdfBatchHandlers \cup {"uploadSituacionSW", "uploadNominasExcels"} \cup SeqHandlers

\* The keys a handler looks up.
KeysUsed(h) ==
  CASE h = "uploadIntrastatPDF" -> {"intrastat_compras", "intrastat_ventas"}
    [] h = "uploadInventarioPDF" -> {"inventario"}
    [] h = "uploadSituacionSW" -> {"situacion_pedidos_erp", "situacion_pedidos_sw"}
    [] h = "uploadNominasExcels" -> {"nominas_asesorias", "nominas_nominas"}
    [] h = "uploadSituacionVersace" ->
         {"situacion_pedidos_pdf", "situacion_pedidos_dirma", "situacion_pedidos_versace"}
    [] h = "uploadImgAlert" -> {"imgs_alertas"}
    [] h = "uploadPedidoPdf" -> {"versace_pedidos"}
    [] h = "uploadPrototypeExcel" -> {"sw_prototipos", "versace_prototipos"}
    [] OTHER -> {}

\* Both payroll roots configured as one and the same folder.
SameRoots == [FullConfig EXCEPT !["nominas_nominas"] = <<"nominas_asesorias">>]

\* The configurations a request is served under: complete, or with one of
\* the keys its handler looks up missing, or (payroll) with both roots equal.
Configs(h) ==
  {FullConfig} \cup {Without(k) : k \in KeysUsed(h)}
  \cup (IF h = "uploadNominasExcels" THEN {SameRoots} ELSE {})

\* ---------------------------------------------------------- specification
\* One request arrives at one endpoint; nothing has been issued yet.
Init ==
  /\ handler \in Handlers
  /\ req \in Requests(handler)
  /\ driveIds \in Configs(handler)
  /\ pc = "start"
  /\ fcalls = <<>>
  /\ tasks = <<>>
  /\ settleOrder = <<>>
  /\ locals = NoLocals
  /\ call = NoCall
  /\ responses = <<>>
  /\ remoteCalls = 0
  /\ store = <<>>
  /\ resolves = NoResolves
  /\ builds = NoBuilds
  /\ driveFiles = {}
  /\ nextCalls = 0
  /\ naming = NoNaming

Next ==
  \/ PdfBatchBegin \/ PdfBatchStartUploads \/ PdfBatchRespond
  \/ SWBegin \/ SWStartLoop \/ SWLoop \/ SWRespond
  \/ NominasBegin \/ NominasAnoMesNomina \/ NominasSubfolders
  \/ NominasStartUploads \/ NominasRespond
  \/ SeqBegin \/ SeqResume
  \/ FolderSettles \/ TaskSettles \/ CallSettles

Spec == Init /\ [][Next]_vars

\* ------------------------------------------------- the stages of uploadFile
\* The uploads of a concurrent PDF batch, each followed through the three
\* awaited calls of DriveRepository.uploadFile.
MaxUploadItems == 2

\* A file of the store: the upload that created it and whether the
\* reader/anyone permission has been granted on it.
StoredFile(i, public) == [upload |-> i, public |-> public]

\* files.get follows files.create at once.
UploadStageGrantSkipped(i) ==
  IF tasks[i].st # "inflight" THEN "settled"
  ELSE IF \E f \in driveFiles : f.upload = i THEN "get"
  ELSE "create"

\* The awaited call upload i is suspended at: files.create, then
\* permissions.create, then files.get.
UploadStage(i) ==
  IF tasks[i].st # "inflight" THEN "settled"
  ELSE IF StoredFile(i, TRUE) \in driveFiles THEN "get"
  ELSE IF StoredFile(i, FALSE) \in driveFiles THEN "grant"
  ELSE "create"

\* A rejected await inside uploadFile: nothing catches it, the upload
\* rejects with the same error.
UploadRejects(i, e) ==
  /\ tasks' = [tasks EXCEPT ![i].st = "rejected", ![i].out = e]
  /\ settleOrder' = Append(settleOrder, i)

\* await this.drive.files.create(...): the file is stored, not yet public.
UploadFileCreate ==
  \E i \in 1..Len(tasks) :
    /\ ~HandlerReady
    /\ UploadStage(i) = "create"
    /\ \/ /\ driveFiles' = driveFiles \cup {StoredFile(i, FALSE)}
          /\ UNCHANGED <<tasks, settleOrder>>
       \/ /\ \E e \in Errors : UploadRejects(i, e)
          /\ UNCHANGED driveFiles
    /\ UNCHANGED <<nextCalls, naming, builds, store, resolves, handler, req, driveIds,
                   pc, fcalls, locals, call, responses, remoteCalls>>

\* await this.drive.permissions.create(...): the stored file becomes public,
\* or the grant fails and the file stays as it was created.
UploadFileGrant ==
  \E i \in 1..Len(tasks) :
    /\ ~HandlerReady
    /\ UploadStage(i) = "grant"
    /\ \/ /\ driveFiles' = (driveFiles \ {StoredFile(i, FALSE)}) \cup {StoredFile(i, TRUE)}
          /\ UNCHANGED <<tasks, settleOrder>>
       \/ /\ \E e \in Errors : UploadRejects(i, e)
          /\ UNCHANGED driveFiles
    /\ UNCHANGED <<nextCalls, naming, builds, store, resolves, handler, req, driveIds,
                   pc, fcalls, locals, call, responses, remoteCalls>>

\* await this.drive.files.get(...); return updatedFile.data.
UploadFileGet ==
  \E i \in 1..Len(tasks) :
    /\ ~HandlerReady
    /\ UploadStage(i) = "get"
    /\ \/ /\ tasks' = [tasks EXCEPT ![i].st = "fulfilled",
                                    ![i].out = UploadResult(i, tasks[i])]
          /\ settleOrder' = Append(settleOrder, i)
       \/ \E e \in Errors : UploadRejects(i, e)
    /\ UNCHANGED <<nextCalls, naming, driveFiles, builds, store, resolves, handler, req,
                   driveIds, pc, fcalls, locals, call, responses, remoteCalls>>

\* A valid batch of one to MaxUploadItems PDFs arrives at one of the two
\* endpoints; the configuration is complete.
UploadRequests(h) ==
  {r \in Requests(h) : /\ PdfBatchValidate(h, r) = Valid
                       /\ Len(ReqFiles(r)) <= MaxUploadItems}

InitUpload ==
  /\ handler \in PdfBatchHandlers
  /\ req \in UploadRequests(handler)
  /\ driveIds = FullConfig
  /\ pc = "start"
  /\ fcalls = <<>>
  /\ tasks = <<>>
  /\ settleOrder = <<>>
  /\ locals = NoLocals
  /\ call = NoCall
  /\ responses = <<>>
  /\ remoteCalls = 0
  /\ store = <<>>
  /\ resolves = NoResolves
  /\ builds = NoBuilds
  /\ driveFiles = {}
  /\ nextCalls = 0
  /\ naming = NoNaming

NextUpload ==
  \/ PdfBatchBegin \/ PdfBatchStartUploads \/ PdfBatchRespond
  \/ FolderSettles
  \/ UploadFileCreate \/ UploadFileGrant \/ UploadFileGet

SpecUpload == InitUpload /\ [][NextUpload]_vars

\* ------------------------------------------------------ generateFolderName
\* A string is the sequence of its characters.
MaxNameLen == 4
MaxCalls == 2

Letters ==
  { "a", "b", "c", "d", "e", "f", "g", "h", "i", "j", "k", "l", "m", "n", "o", "p",
    "q", "r", "s", "t", "u", "v", "w", "x", "y", "z",
    "A", "B", "C", "D", "E", "F", "G", "H", "I", "J", "K", "L", "M", "N", "O", "P",
    "Q", "R", "S", "T", "U", "V", "W", "X", "Y", "Z" }
Digits == {"0", "1", "2", "3", "4", "5", "6", "7", "8", "9"}
\* \s, of which a blank and a tab are used.
Whitespace == {" ", "\t"}

\* .replace(/\.[^/.]+$/, ''): the first dot that is followed, up to the end
\* of the text, by one or more characters that are neither '/' nor '.'; the
\* text is cut there.
ExtensionAt(s, p) ==
  /\ s[p] = "."
  /\ p < Len(s)
  /\ \A k \in (p + 1)..Len(s) : s[k] \notin {"/", "."}

StripExtension(s) ==
  IF \E p \in 1..Len(s) : ExtensionAt(s, p)
  THEN LET p == CHOOSE q \in 1..Len(s) :
                  ExtensionAt(s, q) /\ \A r \in 1..(q - 1) : ~ExtensionAt(s, r)
       IN  SubSeq(s, 1, p - 1)
  ELSE s

\* [a-zA-Z0-9\s\-_]
Kept(ch) == ch \in Letters \cup Digits \cup Whitespace \cup {"-", "_"}

\* Only the first character that is not kept is deleted.
RECURSIVE DeleteFirstSpecial(_)
DeleteFirstSpecial(s) ==
  IF s = <<>> THEN <<>>
  ELSE IF ~Kept(Head(s)) THEN Tail(s)
  ELSE <<Head(s)>> \o DeleteFirstSpecial(Tail(s))

\* .replace(/[^a-zA-Z0-9\s\-_]/g, ''): every other character is deleted.
DeleteSpecial(s) == SelectSeq(s, Kept)

\* Every whitespace character becomes an underscore of its own.
EachSpaceToUnderscore(s) ==
  [k \in 1..Len(s) |-> IF s[k] \in Whitespace THEN "_" ELSE s[k]]

\* .replace(/\s+/g, '_'): every run of whitespace becomes one underscore.
RECURSIVE SpacesToUnderscores(_)
SpacesToUnderscores(s) ==
  IF s = <<>> THEN <<>>
  ELSE IF Head(s) \notin Whitespace THEN <<Head(s)>> \o SpacesToUnderscores(Tail(s))
  ELSE IF Len(s) > 1 /\ s[2] \in Whitespace THEN SpacesToUnderscores(Tail(s))
  ELSE <<"_">> \o SpacesToUnderscores(Tail(s))

\* .trim(): whitespace is removed from both ends.
RECURSIVE TrimStart(_)
TrimStart(s) ==
  IF s # <<>> /\ Head(s) \in Whitespace THEN TrimStart(Tail(s)) ELSE s

RECURSIVE TrimEnd(_)
TrimEnd(s) ==
  IF s # <<>> /\ s[Len(s)] \in Whitespace THEN TrimEnd(SubSeq(s, 1, Len(s) - 1)) ELSE s

Trim(s) == TrimEnd(TrimStart(s))

GenerateFolderName(originalname) ==
  Trim(SpacesToUnderscores(DeleteSpecial(StripExtension(originalname))))

\* The characters the texts are drawn from: a letter, a digit, a blank, the
\* two characters the extension pattern names, another special character
\* and the underscore.
Alphabet == {"a", "1", " ", ".", "/", ":", "_"}

\* "  a/b:c  " and "Informe Q1 (2025).xlsx"
PaddedName == <<" ", " ", "a", "/", "b", ":", "c", " ", " ">>
ReportName ==
  << "I", "n", "f", "o", "r", "m", "e", " ", "Q", "1", " ", "(", "2", "0", "2", "5",
     ")", ".", "x", "l", "s", "x" >>

Originalnames == SeqsOf(Alphabet, 0, MaxNameLen) \cup {PaddedName, ReportName}

\* generateFolderName is called on the text, then on what it returned.
GenerateFolderNameCall ==
  /\ Len(naming.results) < MaxCalls
  /\ naming' = [naming EXCEPT !.results =
                  Append(@, GenerateFolderName(IF @ = <<>> THEN naming.input
                                               ELSE @[Len(@)]))]
  /\ UNCHANGED <<nextCalls, driveFiles, builds, store, resolves, handler, req, driveIds,
                 pc, fcalls, tasks, settleOrder, locals, call, responses, remoteCalls>>

InitNaming ==
  /\ handler = "none"
  /\ req = [multipart |-> FALSE]
  /\ driveIds = FullConfig
  /\ pc = "idle"
  /\ fcalls = <<>>
  /\ tasks = <<>>
  /\ settleOrder = <<>>
  /\ locals = NoLocals
  /\ call = NoCall
  /\ responses = <<>>
  /\ remoteCalls = 0
  /\ store = <<>>
  /\ resolves = NoResolves
  /\ builds = NoBuilds
  /\ driveFiles = {}
  /\ nextCalls = 0
  /\ \E x \in Originalnames : naming = [input |-> x, results |-> <<>>]

NextNaming == GenerateFolderNameCall

SpecNaming == InitNaming /\ [][NextNaming]_vars

\* ------------------------------------------- batch requests, store answering
\* The batch endpoints under the assumption that the store answers every
\* call issued to it: a continuation that can run does run, and a call in
\* flight eventually settles.
MaxFairFiles == 2

\* The file fields of the batch endpoints.
FileFields ==
  { "files", "erpSusy", "planningCliente", "archivoResumen", "archivosDetalle1",
    "archivosDetalle2" }

\* The number of files a request carries in field f.
FilesInField(r, f) == IF f \in DOMAIN r THEN Len(r[f]) ELSE 0

\* The number of files a request carries.
FilesIn(r) ==
  FilesInField(r, "files") + FilesInField(r, "erpSusy")
  + FilesInField(r, "planningCliente") + FilesInField(r, "archivoResumen")
  + FilesInField(r, "archivosDetalle1") + FilesInField(r, "archivosDetalle2")

\* The requests served: at most MaxFairFiles files in a field, and one more
\* in all.
FairRequests(h) ==
  {r \in Requests(h) : /\ \A f \in FileFields : FilesInField(r, f) <= MaxFairFiles
                       /\ FilesIn(r) <= MaxFairFiles + 1}

InitFair ==
  /\ handler \in PdfBatchHandlers \cup {"uploadSituacionSW", "uploadNominasExcels"}
  /\ req \in FairRequests(handler)
  /\ driveIds \in Configs(handler)
  /\ pc = "start"
  /\ fcalls = <<>>
  /\ tasks = <<>>
  /\ settleOrder = <<>>
  /\ locals = NoLocals
  /\ call = NoCall
  /\ responses = <<>>
  /\ remoteCalls = 0
  /\ store = <<>>
  /\ resolves = NoResolves
  /\ builds = NoBuilds
  /\ driveFiles = {}
  /\ nextCalls = 0
  /\ naming = NoNaming

NextFair ==
  \/ PdfBatchBegin \/ PdfBatchStartUploads \/ PdfBatchRespond
  \/ SWBegin \/ SWStartLoop \/ SWLoop \/ SWRespond
  \/ NominasBegin \/ NominasAnoMesNomina \/ NominasSubfolders
  \/ NominasStartUploads \/ NominasRespond
  \/ FolderSettles \/ TaskSettles \/ CallSettles

SpecFair ==
  /\ InitFair
  /\ [][NextFair]_vars
  /\ WF_vars(HandlerStep)
  /\ WF_vars(FolderSettles) /\ WF_vars(TaskSettles) /\ WF_vars(CallSettles)

\* ------------------------------------------------------------ authMiddleware
\* authMiddleware(req, res, next) of auth.middleware.js. A header value is
\* the sequence of the words and blanks it is written with; a word holds no
\* blank. "good" is the one token that is signed with the secret and has
\* not expired.
\* Longest Authorization header, in words and blanks.
MaxHeaderLen == 4
HeaderSymbols == {"Bearer", "bearer", " ", "good", "bad"}

\* req.headers without and with an Authorization header.
HeadersWithout == [host |-> <<"api">>]
HeadersWith(h) == [host |-> <<"api">>, authorization |-> h]

\* const authHeader = req.headers['authorization']; !authHeader
NoAuthHeader(hs) == "authorization" \notin DOMAIN hs \/ hs.authorization = <<>>

\* Upper and lower case count alike.
StartsWithBearerAnyCase(h) ==
  Len(h) >= 2 /\ h[1] \in {"Bearer", "bearer"} /\ h[2] = " "

\* authHeader.startsWith('Bearer ')
StartsWithBearer(h) == Len(h) >= 2 /\ h[1] = "Bearer" /\ h[2] = " "

\* authHeader.split(' '): the pieces between the blanks, empty ones kept.
RECURSIVE SplitBlank(_)
SplitBlank(h) ==
  IF h = <<>> THEN << <<>> >>
  ELSE LET rest == SplitBlank(Tail(h))
       IN  IF Head(h) = " " THEN << <<>> >> \o rest
           ELSE << <<Head(h)>> \o rest[1] >> \o Tail(rest)

\* authHeader.split(' ')[1]; a piece that is not there counts as empty, both
\* make jwt.verify throw.
BearerToken(h) == IF Len(SplitBlank(h)) >= 2 THEN SplitBlank(h)[2] ELSE <<>>

\* jwt.verify(token, config.jwt.secret) returns the payload, or throws.
JwtVerifies(token) == token = <<"good">>
DecodedPayload(token) == [sub |-> token]

Unauthorized(msg) == [status |-> 401, body |-> [success |-> FALSE, message |-> msg]]

\* The whole middleware: it runs to its end in one turn.
AuthMiddleware ==
  /\ handler = "authMiddleware"
  /\ pc = "start"
  /\ pc' = "done"
  /\ IF NoAuthHeader(req.headers)
     THEN /\ responses' = Append(responses, Unauthorized(<<"No se proporciono token">>))
          /\ UNCHANGED <<req, nextCalls>>
     ELSE IF ~StartsWithBearer(req.headers.authorization)
     THEN /\ responses' = Append(responses, Unauthorized(<<"Formato incorrecto">>))
          /\ UNCHANGED <<req, nextCalls>>
     ELSE IF ~JwtVerifies(BearerToken(req.headers.authorization))
     THEN /\ responses' = Append(responses, Unauthorized(<<"Token no valido">>))
          /\ UNCHANGED <<req, nextCalls>>
     ELSE /\ req' = [req EXCEPT
                       !.user = <<DecodedPayload(BearerToken(req.headers.authorization))>>]
          /\ nextCalls' = nextCalls + 1
          /\ UNCHANGED responses
  /\ UNCHANGED <<naming, driveFiles, builds, store, resolves, handler, driveIds, fcalls,
                 tasks, settleOrder, locals, call, remoteCalls>>

\* A request arrives, with any Authorization header or none; req.user is
\* not set.
InitAuth ==
  /\ handler = "authMiddleware"
  /\ req \in { [headers |-> hs, user |-> <<>>] :
                 hs \in {HeadersWithout}
                        \cup {HeadersWith(h) : h \in SeqsOf(HeaderSymbols, 0, MaxHeaderLen)} }
  /\ driveIds = FullConfig
  /\ pc = "start"
  /\ fcalls = <<>>
  /\ tasks = <<>>
  /\ settleOrder = <<>>
  /\ locals = NoLocals
  /\ call = NoCall
  /\ responses = <<>>
  /\ remoteCalls = 0
  /\ store = <<>>
  /\ resolves = NoResolves
  /\ builds = NoBuilds
  /\ driveFiles = {}
  /\ nextCalls = 0
  /\ naming = NoNaming

NextAuth == AuthMiddleware

SpecAuth == InitAuth /\ [][NextAuth]_vars

\* ------------------------------------------------------ getNotasProduccion
\* ExternalApiController.getNotasProduccion and
\* GetNotasProduccionUseCase.execute. A body parameter is <<>> when it is
\* missing (undefined or empty), a date is <<format, year, month, day>> and
\* a number is <<text>>, the text as it was sent.
Iso == "YYYY-MM-DD"
Fechas ==
  { <<>>, <<Iso, 2025, 1, 31>>, <<Iso, 2025, 3, 1>>, <<Iso, 2025, 2, 30>>,
    <<"DD/MM/YYYY", 2025, 1, 31>> }
Numeros == { <<>>, <<"12">>, <<"0">>, <<"1.5">>, <<"007">>, <<"abc">> }

\* !value
Missing(v) == v = <<>>

DaysIn(y, m) ==
  IF m = 2 THEN (IF y % 4 = 0 /\ (y % 100 # 0 \/ y % 400 = 0) THEN 29 ELSE 28)
  ELSE IF m \in {4, 6, 9, 11} THEN 30 ELSE 31

\* _isValidDate: the text has the form YYYY-MM-DD and is the ISO date of
\* the Date it parses to.
IsValidDate(v) ==
  /\ v[1] = Iso
  /\ v[3] \in 1..12
  /\ v[4] \in 1..DaysIn(v[2], v[3])

\* new Date(a) > new Date(b) for two dates; an invalid Date compares false.
DateAfter(a, b) ==
  /\ IsValidDate(a) /\ IsValidDate(b)
  /\ \/ a[2] > b[2]
     \/ a[2] = b[2] /\ a[3] > b[3]
     \/ a[2] = b[2] /\ a[3] = b[3] /\ a[4] > b[4]

\* parseInt(value, 10): the leading integer of the text; <<>> stands for NaN.
NaN == <<>>
ParseInt(text) ==
  CASE text = "12" -> <<12>>
    [] text = "0" -> <<0>>
    [] text = "1.5" -> <<1>>
    [] text = "007" -> <<7>>
    [] OTHER -> NaN

\* num.toString() of the integers ParseInt yields.
NumToString(n) ==
  CASE n = 12 -> "12" [] n = 0 -> "0" [] n = 1 -> "1" [] n = 7 -> "7" [] OTHER -> "NaN"

\* _isPositiveInteger
IsPositiveInteger(v) ==
  LET num == ParseInt(v[1])
  IN  num # NaN /\ num[1] > 0 /\ NumToString(num[1]) = v[1]

\* _validateParams: the list of errors, in the order the rules are checked.
ValidationErrors(params) ==
  (IF Missing(params.fechaDesde) THEN <<"fechaDesde es obligatorio">>
   ELSE IF ~IsValidDate(params.fechaDesde) THEN <<"fechaDesde debe tener formato">>
   ELSE <<>>)
  \o (IF Missing(params.fechaHasta) THEN <<"fechaHasta es obligatorio">>
      ELSE IF ~IsValidDate(params.fechaHasta) THEN <<"fechaHasta debe tener formato">>
      ELSE <<>>)
  \o (IF ~Missing(params.fechaDesde) /\ ~Missing(params.fechaHasta)
         /\ DateAfter(params.fechaDesde, params.fechaHasta)
      THEN <<"fechaDesde no puede ser posterior a fechaHasta">> ELSE <<>>)
  \o (IF Missing(params.seccion) THEN <<"seccion es obligatorio">>
      ELSE IF ~IsPositiveInteger(params.seccion) THEN <<"seccion debe ser entero positivo">>
      ELSE <<>>)
  \o (IF Missing(params.temporada) THEN <<"temporada es obligatorio">>
      ELSE IF ~IsPositiveInteger(params.temporada)
      THEN <<"temporada debe ser entero positivo">>
      ELSE <<>>)

\* A message is the sequence of its parts; message.includes(part).
ValidationMark == "Errores de validacion"
Includes(message, part) == \E k \in 1..Len(message) : message[k] = part

\* The errors the repository's post can reject with: the message is what
\* the HTTP client or the ERP reported.
ErpErrors ==
  { [message |-> <<"timeout of 30000ms exceeded">>],
    [message |-> <<"ERP:", ValidationMark, "seccion desconocida">>] }

\* What the ERP can answer: response.data.
ErpRecords == { <<>>, <<"nota 1", "nota 2">> }

\* The catch block of the controller.
NotasCatch(message) ==
  IF Includes(message, ValidationMark)
  THEN [status |-> 400, body |-> [success |-> FALSE, message |-> message]]
  ELSE [status |-> 500,
        body |-> [success |-> FALSE, message |-> <<"Error interno del servidor">>,
                  error |-> message]]

\* The controller up to the await of execute, and execute up to the await
\* of the repository's post.
NotasBegin ==
  /\ handler = "getNotasProduccion"
  /\ pc = "start"
  /\ IF \E f \in DOMAIN req.body : Missing(req.body[f])
     THEN /\ responses' = Append(responses,
               [status |-> 400,
                body |-> [success |-> FALSE,
                          message |-> <<"Faltan parametros obligatorios">>]])
          /\ pc' = "done"
          /\ UNCHANGED <<call, remoteCalls>>
     ELSE IF ValidationErrors(req.body) # <<>>
     THEN /\ responses' = Append(responses,
               NotasCatch(<<ValidationMark>> \o ValidationErrors(req.body)))
          /\ pc' = "done"
          /\ UNCHANGED <<call, remoteCalls>>
     ELSE /\ call' = NewCall("erp.post", 1, NoId)
          /\ remoteCalls' = remoteCalls + 1
          /\ pc' = "awaitErp"
          /\ UNCHANGED responses
  /\ UNCHANGED <<nextCalls, naming, driveFiles, builds, store, resolves, handler, req,
                 driveIds, fcalls, tasks, settleOrder, locals>>

\* The ERP answers, or the call fails.
ErpSettles ==
  /\ handler = "getNotasProduccion"
  /\ pc = "awaitErp"
  /\ call.st = "inflight"
  /\ \/ \E records \in ErpRecords :
          call' = [call EXCEPT !.st = "fulfilled", !.out = [data |-> records]]
     \/ \E e \in ErpErrors : call' = [call EXCEPT !.st = "rejected", !.out = e]
  /\ UNCHANGED <<nextCalls, naming, driveFiles, builds, store, resolves, handler, req,
                 driveIds, pc, fcalls, tasks, settleOrder, locals, responses, remoteCalls>>

\* execute resumes: it returns the records, or throws the wrapped error,
\* and the controller answers.
NotasRespond ==
  /\ handler = "getNotasProduccion"
  /\ pc = "awaitErp"
  /\ call.st \in {"fulfilled", "rejected"}
  /\ responses' = Append(responses,
       IF call.st = "fulfilled"
       THEN [status |-> 200,
             body |-> [success |-> TRUE, data |-> call.out.data,
                       total_count |-> Len(call.out.data)]]
       ELSE NotasCatch(<<"Error al consultar el ERP externo">> \o call.out.message))
  /\ pc' = "done"
  /\ UNCHANGED <<nextCalls, naming, driveFiles, builds, store, resolves, handler, req,
                 driveIds, fcalls, tasks, settleOrder, locals, call, remoteCalls>>

InitNotas ==
  /\ handler = "getNotasProduccion"
  /\ req \in { [body |-> [fechaDesde |-> d, fechaHasta |-> h, seccion |-> n,
                          temporada |-> t]] :
                 d \in Fechas, h \in Fechas, n \in Numeros, t \in Numeros }
  /\ driveIds = FullConfig
  /\ pc = "start"
  /\ fcalls = <<>>
  /\ tasks = <<>>
  /\ settleOrder = <<>>
  /\ locals = NoLocals
  /\ call = NoCall
  /\ responses = <<>>
  /\ remoteCalls = 0
  /\ store = <<>>
  /\ resolves = NoResolves
  /\ builds = NoBuilds
  /\ driveFiles = {}
  /\ nextCalls = 0
  /\ naming = NoNaming

NextNotas == NotasBegin \/ ErpSettles \/ NotasRespond

SpecNotas == InitNotas /\ [][NextNotas]_vars

\* ================================================================ properties
\* The uploads of a concurrent PDF batch were issued (validation and folder
\* resolution passed) and the request has been answered.
PdfBatchAnswered ==
  handler \in PdfBatchHandlers /\ tasks # <<>> /\ responses # <<>>

Fulfilled(ts) == {i \in 1..Len(ts) : ts[i].st = "fulfilled"}
Rejected(ts) == {i \in 1..Len(ts) : ts[i].st = "rejected"}

\* The fallidos list of a response body; a body without the field lists no
\* failed item.
BodyFallidos(b) == IF "fallidos" \in DOMAIN b THEN b.fallidos ELSE <<>>

\* C1: the response of a concurrent batch of N >= 1 files accounts for every
\* file: exitosos and fallidos together have N entries, resumen.total is N,
\* and resumen.exitosos / resumen.fallidos are the lengths of the two lists.
BatchCountsAddUp ==
  PdfBatchAnswered =>
    LET b == responses[1].body
        N == Len(ReqFiles(req))
    IN  /\ N >= 1
        /\ "resumen" \in DOMAIN b
        /\ Len(b.exitosos) + Len(BodyFallidos(b)) = N
        /\ Len(locals.exitosos) + Len(locals.fallidos) = N
        /\ b.resumen.total = N
        /\ b.resumen.exitosos = Len(b.exitosos)
        /\ b.resumen.fallidos = Len(BodyFallidos(b))
        /\ b.resumen.fallidos = Len(locals.fallidos)

\* A batch of three files answered with one success and two failures.
BatchCountsMixed ==
  /\ PdfBatchAnswered
  /\ handler = "uploadIntrastatPDF"
  /\ Len(tasks) = 3
  /\ Len(responses[1].body.exitosos) = 1
  /\ Len(BodyFallidos(responses[1].body)) = 2
  /\ responses[1].body.resumen.total = 3

\* C2: the status of a concurrent batch follows from the outcome counts
\* alone: 201 iff nothing failed, 500 iff nothing succeeded and something
\* failed, 207 iff something succeeded and something failed; for N >= 1 the
\* three cases are exhaustive and exclusive.
StatusFromCounts ==
  PdfBatchAnswered =>
    LET ok == Cardinality(Fulfilled(tasks))
        ko == Cardinality(Rejected(tasks))
        status == responses[1].status
    IN  /\ ok + ko = Len(ReqFiles(req))
        /\ status \in {201, 500, 207}
        /\ (status = 201) <=> (ko = 0)
        /\ (status = 500) <=> (ok = 0 /\ ko >= 1)
        /\ (status = 207) <=> (ok >= 1 /\ ko >= 1)

\* Every upload of a batch of two failed for a reason carrying its own
\* code, and the batch is answered 500.
AllFailedIs500 ==
  /\ PdfBatchAnswered
  /\ Len(tasks) = 2
  /\ \A i \in 1..2 : tasks[i].st = "rejected" /\ tasks[i].out.code = 403
  /\ responses[1].status = 500

\* C3: a concurrent batch is never answered while one of its uploads is in
\* flight: once the response is sent every upload has settled.
BatchAnsweredAfterSettled ==
  (handler \in PdfBatchHandlers /\ responses # <<>>) =>
    \A i \in 1..Len(tasks) : Settled(tasks[i])

\* A batch of three is answered after a rejection settled first and the
\* two other uploads settled later.
BatchAnsweredAfterLateUploads ==
  /\ PdfBatchAnswered
  /\ Len(tasks) = 3
  /\ Len(settleOrder) = 3
  /\ tasks[settleOrder[1]].st = "rejected"
  /\ tasks[settleOrder[3]].st = "fulfilled"

\* C4: uploadNominasExcels is never answered while one of the uploads it
\* started is unsettled. The code does not keep this: the outer Promise.all
\* rejects as soon as the archivoResumen upload rejects.
NominasAnsweredAfterSettled ==
  (handler = "uploadNominasExcels" /\ responses # <<>>) =>
    \A i \in 1..Len(tasks) : Settled(tasks[i])

\* The k-th smallest element of a set of indices.
Nth(S, k) == CHOOSE x \in S : Cardinality({y \in S : y < x}) = k - 1

\* The files a batch handler uploads one task each for.
BatchItems ==
  IF handler = "uploadSituacionSW" THEN req.erpSusy ELSE ReqFiles(req)

ListsInInputOrder ==
  PdfBatchAnswered =>
    LET b == responses[1].body
        ex == b.exitosos
        fa == BodyFallidos(b)
    IN  /\ Len(ex) = Cardinality(Fulfilled(tasks))
        /\ Len(fa) = Cardinality(Rejected(tasks))
        /\ \A k \in 1..Len(ex) :
             /\ ex[k].id = tasks[Nth(Fulfilled(tasks), k)].out.id
             /\ ex[k].name = ReqFiles(req)[Nth(Fulfilled(tasks), k)].originalname
        /\ \A k \in 1..Len(fa) :
             fa[k].archivo = ReqFiles(req)[Nth(Rejected(tasks), k)].originalname
        /\ (Len(tasks) = 3 /\ Rejected(tasks) = {2}) =>
             /\ Len(ex) = 2
             /\ Len(fa) = 1
             /\ fa[1].archivo = ReqFiles(req)[2].originalname
             /\ responses[1].status = 207

\* Three items, only the second failed, and the uploads settled last to
\* first.
OnlySecondFailedOutOfOrder ==
  /\ PdfBatchAnswered
  /\ Len(tasks) = 3
  /\ Rejected(tasks) = {2}
  /\ settleOrder = <<3, 2, 1>>
  /\ ReqFiles(req)[2].originalname = "b.pdf"
  /\ ReqFiles(req)[1].originalname = "a.pdf"
  /\ responses[1].status = 207
  /\ responses[1].body.fallidos[1].archivo = "b.pdf"

\* C7: in the erpSusy loop an upload is started only after the one before
\* it settled: every upload but the one issued last has settled, so no two
\* are in flight together.
OneErpUploadAtATime ==
  handler = "uploadSituacionSW" =>
    /\ \A i \in 1..(Len(tasks) - 1) : Settled(tasks[i])
    /\ Cardinality({i \in 1..Len(tasks) : tasks[i].st = "inflight"}) <= 1

\* The third erpSusy upload is in flight after the first rejected and the
\* second fulfilled.
ThirdErpUploadInFlight ==
  /\ handler = "uploadSituacionSW"
  /\ Len(tasks) = 3
  /\ tasks[1].st = "rejected"
  /\ tasks[2].st = "fulfilled"
  /\ tasks[3].st = "inflight"

\* The folder resolution an upload of a batch endpoint goes to: the day
\* folder, or for uploadNominasExcels the subfolder of the upload's field.
TargetCall(t) ==
  IF handler # "uploadNominasExcels" THEN 1
  ELSE IF t.field = "archivosDetalle2" THEN 3
  ELSE IF t.field = "archivosDetalle1" THEN 4
  ELSE 5

BatchEndpoints ==
  PdfBatchHandlers \cup {"uploadSituacionSW", "uploadNominasExcels"}

\* C8: in the batch endpoints an upload is only issued to a folder whose
\* resolution has fulfilled, with the id it yielded (the planning upload of
\* uploadSituacionSW only after its own day folder is resolved); when a
\* folder resolution fails no upload is issued and the request is answered
\* with an error.
UploadsOnlyToResolvedFolders ==
  handler \in BatchEndpoints =>
    /\ \A i \in 1..Len(tasks) :
         /\ TargetCall(tasks[i]) <= Len(fcalls)
         /\ fcalls[TargetCall(tasks[i])].st = "fulfilled"
         /\ tasks[i].folder = fcalls[TargetCall(tasks[i])].out
         /\ tasks[i].folder # NoId
    /\ (call.kind = "excel.executeFolderDia" /\ call.stage = "upload") =>
         /\ call.folder # NoId
         /\ call.folder = FolderIdOf(<<DayFolderName>>, call.parent)
    /\ (\E j \in 1..Len(fcalls) : fcalls[j].st = "rejected") =>
         /\ tasks = <<>>
         /\ pc # "done" => HandlerReady
         /\ pc = "done" =>
              /\ Len(responses) = 1
              /\ "error" \in DOMAIN responses[1].body
              /\ responses[1].status \in {403, 500}

\* The day folder of an intrastat batch could not be resolved: no upload,
\* and the error of the resolution is the answer.
FolderFailedNoUploads ==
  /\ handler = "uploadIntrastatPDF"
  /\ Len(fcalls) = 1
  /\ fcalls[1].st = "rejected"
  /\ fcalls[1].out.code = 403
  /\ tasks = <<>>
  /\ pc = "done"
  /\ responses[1].status = 403

\* Some file of the list has a media type outside `allowed`.
SomeFileNot(files, allowed) == \E i \in 1..Len(files) : files[i].mimetype \notin allowed

\* A request that fails validation, stated per endpoint from the request
\* alone: no file attached, a required field missing, an unknown marca, a
\* wrong media type.
RequestInvalid(h, r) ==
  CASE h = "uploadIntrastatPDF" ->
         \/ ~r.multipart \/ r.files = <<>>
         \/ r.marca \notin {"COMPRA", "VENTA"}
         \/ SomeFileNot(r.files, {PdfMime})
    [] h = "uploadInventarioPDF" ->
         ~r.multipart \/ r.files = <<>> \/ SomeFileNot(r.files, {PdfMime})
    [] h = "uploadSituacionSW" ->
         \/ ~r.multipart \/ r.erpSusy = <<>> \/ r.planningCliente = <<>>
         \/ SomeFileNot(r.erpSusy, {PdfMime, OctetMime})
         \/ SomeFileNot(r.planningCliente, {XlsxMime, XlsMime, XlsmMime, OctetMime})
    [] h = "uploadNominasExcels" ->
         \/ ~r.multipart \/ r.archivoResumen = <<>>
         \/ r.archivosDetalle1 = <<>> \/ r.archivosDetalle2 = <<>>
         \/ r.anio \in {Undefined, ""} \/ r.mes \in {Undefined, ""}
         \/ SomeFileNot(r.archivoResumen \o r.archivosDetalle1 \o r.archivosDetalle2,
                        {XlsxMime, XlsMime, XlsUpperMime, XlsmMime, XlsmLowerMime})
    [] h = "uploadSituacionVersace" ->
         \/ ~r.multipart
         \/ r.informeFechas = <<>> \/ r.dirma = <<>>
         \/ r.informePasado = <<>> \/ r.informeNuevo = <<>>
         \/ SomeFileNot(r.informeFechas, {PdfMime, OctetMime})
         \/ SomeFileNot(r.dirma \o r.informePasado \o r.informeNuevo,
                        {XlsxMime, XlsMime, XlsmMime, OctetMime})
    [] h = "uploadImgAlert" -> r.file = <<>> \/ SomeFileNot(r.file, {PngMime})
    [] h = "uploadPedidoPdf" -> r.file = <<>> \/ SomeFileNot(r.file, {PdfMime})
    [] h = "uploadPrototypeExcel" ->
         \/ r.file = <<>>
         \/ r.marca \notin {"STUART WEITZMAN", "VERSACE"}
         \/ SomeFileNot(r.file, {XlsxMime, XlsMime})
    [] h = "checkFolder" -> r.idFileFolder \in {Undefined, ""}
    [] h = "createFolderStructure" -> ~r.hasStructure \/ r.name \in {Undefined, ""}
    [] OTHER -> FALSE

\* C9: on every Drive endpoint a request that fails validation is answered
\* 400 and nothing else happens: no folder resolution, no upload, no call of
\* a use case or of the image service is ever issued for it.
InvalidRequestIs400 ==
  RequestInvalid(handler, req) =>
    /\ remoteCalls = 0
    /\ fcalls = <<>>
    /\ tasks = <<>>
    /\ call.st = "idle"
    /\ pc \in {"start", "done"}
    /\ pc = "start" => responses = <<>>
    /\ pc = "done" => (Len(responses) = 1 /\ responses[1].status = 400)

\* A payroll request without anio has been answered 400 with no remote call
\* issued.
NominasWithoutAnioIs400 ==
  /\ handler = "uploadNominasExcels"
  /\ req.multipart
  /\ req.archivoResumen # <<>>
  /\ req.archivosDetalle1 # <<>>
  /\ req.archivosDetalle2 # <<>>
  /\ req.anio = Undefined
  /\ pc = "done"
  /\ responses[1].status = 400
  /\ remoteCalls = 0

\* Two calls for the same (name, parentId) of which d started after c had
\* completed, both having returned an id.
InSuccession(c, d) ==
  /\ c # d
  /\ c \in resolves[d].after
  /\ resolves[c].pc = "done" /\ resolves[d].pc = "done"
  /\ resolves[c].name = resolves[d].name
  /\ resolves[c].parent = resolves[d].parent

\* The folders the calls in C created.
CreatedBy(C) == {i \in 1..Len(store) : store[i].by \in C}

\* The non-trashed folders of that name and parent the store held before
\* the calls.
ExistedBefore(name, parentId) ==
  {i \in 1..Len(store) :
     /\ store[i].by = 0
     /\ store[i].name = name /\ store[i].parent = parentId /\ ~store[i].trashed}

\* C10 (as stated): two resolve(name, parentId) calls in succession create
\* exactly one folder in total and return the same id.
TwoResolvesCreateExactlyOne ==
  \A c, d \in Callers :
    InSuccession(c, d) =>
      /\ Cardinality(CreatedBy({c, d})) = 1
      /\ resolves[c].result = resolves[d].result

\* C10 (amended): two resolve(name, parentId) calls in succession return
\* the same id and create exactly one folder in total when the store held
\* no non-trashed folder of that name under parentId before; when it held
\* one, they create none and both return its id.
TwoResolvesIdempotent ==
  \A c, d \in Callers :
    InSuccession(c, d) =>
      LET before == ExistedBefore(resolves[c].name, resolves[c].parent)
      IN  /\ before = {} =>
                /\ Cardinality(CreatedBy({c, d})) = 1
                /\ resolves[c].result = resolves[d].result
                /\ CreatedBy({c, d}) = {resolves[c].result}
                /\ CreatedBy({d}) = {}
          /\ before # {} =>
                /\ CreatedBy({c, d}) = {}
                /\ resolves[c].result \in before
                /\ resolves[d].result \in before
          /\ Cardinality(before) = 1 => resolves[c].result = resolves[d].result

\* Call 2 started after call 1 had created the folder, in a store that held
\* only a trashed folder of that name and one under another parent; both
\* returned the id of the one folder created.
SecondResolveFoundTheFirst ==
  /\ InSuccession(1, 2)
  /\ ExistedBefore(resolves[1].name, resolves[1].parent) = {}
  /\ Len(store) = 3
  /\ store[1].trashed
  /\ store[2].parent = OtherRoot
  /\ store[3].by = 1
  /\ resolves[1].result = 3
  /\ resolves[2].result = 3

\* C11: one resolve(name, parentId) call creates nothing when a non-trashed
\* folder of that name already exists under parentId and returns the id of
\* such a folder; otherwise it creates at most one folder; a folder it
\* creates has that name and that parent, and no folder of the store is
\* ever changed or removed.
ResolveFrame ==
  /\ [](\A c \in Callers :
          /\ Cardinality(CreatedBy({c})) <= 1
          /\ \A i \in CreatedBy({c}) :
               /\ store[i].name = resolves[c].name
               /\ store[i].parent = resolves[c].parent
               /\ ~store[i].trashed
          /\ ExistedBefore(resolves[c].name, resolves[c].parent) # {} =>
               /\ CreatedBy({c}) = {}
               /\ resolves[c].pc # "creating"
               /\ resolves[c].pc = "done" =>
                    resolves[c].result \in
                      ExistedBefore(resolves[c].name, resolves[c].parent))
  /\ [][ /\ Len(store') \in {Len(store), Len(store) + 1}
         /\ \A i \in 1..Len(store) : store'[i] = store[i] ]_vars

\* A call has returned the id of the folder that was there before it, in a
\* store that still holds that one folder only.
ResolveFoundExisting ==
  /\ resolves[1].pc = "done"
  /\ resolves[2].pc = "idle"
  /\ Len(store) = 1
  /\ store[1].by = 0
  /\ resolves[1].result = 1
  /\ resolves[1].name = store[1].name
  /\ resolves[1].parent = store[1].parent

\* C12: two resolve calls for the same (name, parentId) both create a
\* folder only by racing: neither started after the other had completed,
\* each query was answered before the folder of the other call existed, the
\* two folders have the same name and parent, and the ids returned differ.
DuplicatesOnlyByRace ==
  \A c, d \in Callers :
    ( /\ c # d
      /\ resolves[c].name = resolves[d].name
      /\ resolves[c].parent = resolves[d].parent
      /\ resolves[c].pc = "done" /\ resolves[d].pc = "done"
      /\ CreatedBy({c}) # {} /\ CreatedBy({d}) # {} ) =>
    /\ c \notin resolves[d].after
    /\ d \notin resolves[c].after
    /\ \A i \in CreatedBy({d}) : resolves[c].seen < i
    /\ resolves[c].result \in CreatedBy({c})
    /\ resolves[d].result \in CreatedBy({d})
    /\ resolves[c].result # resolves[d].result

\* The race: both queries were answered on the empty store, both creates
\* went through, and the store holds two folders X under the same parent
\* with the calls returning one each.
RaceCreatedDuplicates ==
  /\ resolves[1].pc = "done" /\ resolves[2].pc = "done"
  /\ resolves[1].seen = 0 /\ resolves[2].seen = 0
  /\ Len(store) = 2
  /\ store[1].name = store[2].name
  /\ store[1].parent = store[2].parent
  /\ ~store[1].trashed /\ ~store[2].trashed
  /\ resolves[1].result # resolves[2].result
  /\ {resolves[1].result, resolves[2].result} = {1, 2}

\* The nodes of the events `ev` of a log, in order.
RECURSIVE NodesOf(_, _)
NodesOf(log, ev) ==
  IF log = <<>> THEN <<>>
  ELSE (IF Head(log).ev = ev THEN <<Head(log).node>> ELSE <<>>) \o NodesOf(Tail(log), ev)

\* The id of the folder build b created for node k.
IdOf(b, k) ==
  LET ok == NodesOf(builds[b].log, "ok")
  IN  Nth(CreatedBy({b}), CHOOSE i \in 1..Len(ok) : ok[i] = k)

\* The nodes of the subtree of k in depth-first pre-order, children in
\* ascending order, from the parent relation of the spec.
RECURSIVE PreOrder(_, _)
RECURSIVE PreOrderAll(_, _)
PreOrder(t, k) == <<k>> \o PreOrderAll(t, {j \in 1..t.n : j > 1 /\ t.parent[j] = k})
PreOrderAll(t, S) ==
  IF S = {} THEN <<>>
  ELSE LET m == CHOOSE x \in S : \A y \in S : x <= y
       IN  PreOrder(t, m) \o PreOrderAll(t, S \ {m})

IsPrefix(a, b) == Len(a) <= Len(b) /\ \A i \in 1..Len(a) : a[i] = b[i]

\* C13: a build that ran without a failing create has created exactly one
\* folder per node of the spec, the top one under rootParentId, every other
\* one under the folder created for its parent node, each with the name of
\* its node, and has returned the id of the top folder.
TreeBuiltAsSpecified ==
  \A b \in Builders :
    builds[b].pc = "done" =>
      LET t == builds[b].spec
          ok == NodesOf(builds[b].log, "ok")
      IN  /\ Cardinality(CreatedBy({b})) = t.n
          /\ Len(ok) = t.n
          /\ \A k \in 1..t.n : \E i \in 1..Len(ok) : ok[i] = k
          /\ \A k \in 1..t.n :
               /\ store[IdOf(b, k)].name = NodeNames[k]
               /\ store[IdOf(b, k)].parent =
                    (IF k = 1 THEN builds[b].root ELSE IdOf(b, t.parent[k]))
          /\ builds[b].result = IdOf(b, 1)

\* A[B, C[D]] built by one call: four folders, B and C under A, D under C.
TreeABCDBuilt ==
  /\ builds[1].pc = "done" /\ builds[2].pc = "idle"
  /\ builds[1].spec.n = 4
  /\ builds[1].spec.parent = [k \in 2..4 |-> IF k = 4 THEN 3 ELSE 1]
  /\ Len(store) = 5
  /\ builds[1].result = 2
  /\ store[2].name = "A" /\ store[2].parent = TreeRootId
  /\ store[3].name = "B" /\ store[3].parent = 2
  /\ store[4].name = "C" /\ store[4].parent = 2
  /\ store[5].name = "D" /\ store[5].parent = 4

\* C14: a build requests its creates one at a time in depth-first
\* pre-order: each request is answered before the next is made, and the
\* nodes requested so far are a prefix of the pre-order of the spec.
TreeCreatesInPreOrder ==
  \A b \in Builders :
    LET log == builds[b].log
    IN  /\ \A i \in 1..Len(log) :
             IF log[i].ev = "req"
             THEN i < Len(log) =>
                    (log[i + 1].ev \in {"ok", "fail"} /\ log[i + 1].node = log[i].node)
             ELSE i > 1 /\ log[i - 1].ev = "req"
        /\ IsPrefix(NodesOf(log, "req"), PreOrder(builds[b].spec, 1))
        /\ builds[b].pc = "creating" <=> (log # <<>> /\ log[Len(log)].ev = "req")

\* A[B[D], C] built: D, the fourth node of the spec, was requested third,
\* after B was created and before C was requested.
TreeDeepChildBeforeSibling ==
  /\ builds[1].pc = "done"
  /\ builds[1].spec.n = 4
  /\ builds[1].spec.parent = [k \in 2..4 |-> IF k = 4 THEN 2 ELSE 1]
  /\ NodesOf(builds[1].log, "req") = <<1, 2, 4, 3>>

\* C15: two builds of the same spec under the same root that both ran
\* through have created two complete trees: twice as many folders as the
\* spec has nodes, no folder of one tree under a folder of the other, and
\* two different top ids.
TreeBuiltTwiceIsTwoTrees ==
  (builds[1].pc = "done" /\ builds[2].pc = "done") =>
    /\ builds[1].spec = builds[2].spec /\ builds[1].root = builds[2].root
    /\ Cardinality(CreatedBy({1, 2})) = 2 * builds[1].spec.n
    /\ Cardinality(CreatedBy({1})) = builds[1].spec.n
    /\ Cardinality(CreatedBy({2})) = builds[1].spec.n
    /\ \A i \in CreatedBy({1}) : store[i].parent \notin CreatedBy({2})
    /\ \A i \in CreatedBy({2}) : store[i].parent \notin CreatedBy({1})
    /\ builds[1].result # builds[2].result
    /\ builds[1].result \in CreatedBy({1})
    /\ builds[2].result \in CreatedBy({2})

\* A[B, C] built twice, the second call after the first: six folders, two
\* of them named A under the root.
TreeBuiltTwiceInSuccession ==
  /\ builds[1].pc = "done" /\ builds[2].pc = "done"
  /\ builds[1].spec.n = 3
  /\ builds[1].spec.parent = [k \in 2..3 |-> 1]
  /\ Len(store) = 7
  /\ CreatedBy({1}) = {2, 3, 4}
  /\ CreatedBy({2}) = {5, 6, 7}
  /\ store[2].name = "A" /\ store[5].name = "A"
  /\ store[2].parent = TreeRootId /\ store[5].parent = TreeRootId
  /\ builds[1].result = 2 /\ builds[2].result = 5

\* C16: a build in which a create failed has stopped there: the failure is
\* the last event, the nodes created are those before the failing node in
\* pre-order, their folders are all in the store, and the endpoint answers
\* with an error status; 201 is only the answer of a build that ran through.
TreeFailureAborts ==
  \A b \in Builders :
    LET log == builds[b].log
        ok == NodesOf(log, "ok")
        fail == NodesOf(log, "fail")
    IN  /\ fail # <<>> =>
             /\ builds[b].pc = "failed"
             /\ Len(fail) = 1
             /\ log[Len(log)].ev = "fail"
             /\ IsPrefix(ok \o fail, PreOrder(builds[b].spec, 1))
             /\ Cardinality(CreatedBy({b})) = Len(ok)
             /\ \A k \in 1..Len(ok) :
                  /\ store[IdOf(b, ok[k])].name = NodeNames[ok[k]]
                  /\ ~store[IdOf(b, ok[k])].trashed
             /\ builds[b].response.status = 500
             /\ builds[b].result = NullFolder
        /\ builds[b].pc = "failed" => fail # <<>>
        /\ builds[b].response.status = 201 <=> builds[b].pc = "done"

\* The create of C failed in A[B, C[D]]: A and B stay in the store, D was
\* never requested, the answer is 500.
TreeFailedAtThirdNode ==
  /\ builds[1].pc = "failed" /\ builds[2].pc = "idle"
  /\ builds[1].spec.n = 4
  /\ builds[1].spec.parent = [k \in 2..4 |-> IF k = 4 THEN 3 ELSE 1]
  /\ NodesOf(builds[1].log, "req") = <<1, 2, 3>>
  /\ NodesOf(builds[1].log, "fail") = <<3>>
  /\ Len(store) = 3
  /\ store[2].name = "A" /\ store[3].name = "B"
  /\ builds[1].response.status = 500


\* Upload i was handed to the store and its file was created there.
FileCreated(i) == \E f \in driveFiles : f.upload = i

\* The grant of upload i failed: the upload ended with its file still
\* unreadable to the public.
GrantFailed(i) == tasks[i].st = "rejected" /\ StoredFile(i, FALSE) \in driveFiles

\* Item i is listed in exitosos of the response.
ReportedSucceeded(i) ==
  \E k \in 1..Len(locals.exitosos) : locals.exitosos[k].id = <<"files", i>>

\* C17: the public-read grant is a side channel of an upload: once the batch
\* is answered, an item whose file was created in the store is reported as
\* succeeded even when its permission grant failed.
GrantNeverFailsTheItem ==
  PdfBatchAnswered =>
    \A i \in 1..Len(tasks) : FileCreated(i) /\ GrantFailed(i) => ReportedSucceeded(i)

\* The grants uploadPrototypeExcel has started.
Grants == IF handler = "uploadPrototypeExcel" THEN tasks ELSE <<>>

\* C18: in uploadPrototypeExcel the grants are started only after the Excel
\* upload succeeded, with the 201 response sent in the same turn, and once
\* the response is sent no settlement of a grant changes its status or body.
GrantsFireAndForget ==
  /\ [](Grants # <<>> =>
          /\ call.kind = "excel.executeFolder" /\ call.st = "fulfilled"
          /\ responses = <<SuccessResponse(handler, locals.values)>>
          /\ responses[1].status = 201)
  /\ [][handler = "uploadPrototypeExcel" /\ responses # <<>>
          => responses' = responses]_vars

\* The 201 went out with one grant still in flight and another one failed.
AnsweredWhileGrantsInFlight ==
  /\ handler = "uploadPrototypeExcel"
  /\ responses # <<>> /\ responses[1].status = 201
  /\ \E i, j \in 1..Len(tasks) :
       tasks[i].st = "inflight" /\ tasks[j].st = "rejected"

\* Every character of s is one a text can hold.
IsString(s) ==
  \A k \in 1..Len(s) :
    s[k] \in Alphabet \cup Letters \cup Digits \cup {"(", ")", "-", "\t"}

\* C19: generateFolderName returns a string for every string, and applying
\* it to its own result returns that result again.
GenerateFolderNameIdempotent ==
  \A k \in 1..Len(naming.results) :
    /\ IsString(naming.results[k])
    /\ naming.results[k] = naming.results[1]

\* The first call changed the text to a non-empty name and a second call
\* was made on that name.
FolderNameGeneratedTwice ==
  /\ Len(naming.results) >= 2
  /\ naming.results[1] # naming.input
  /\ naming.results[1] # <<>>

\* The first result of generateFolderName for the text, once it was called.
Generated == naming.results[1]

\* C20: generateFolderName("  a/b:c  ") is "a_b_c",
\* generateFolderName("Informe Q1 (2025).xlsx") is "Informe_Q1_2025", and
\* whitespace at the start or the end of the text never gives an underscore
\* at the start or the end of the name.
FolderNameTrimmedAndSeparated ==
  naming.results # <<>> =>
    /\ naming.input = PaddedName => Generated = <<"a", "_", "b", "_", "c">>
    /\ naming.input = ReportName =>
         Generated = << "I", "n", "f", "o", "r", "m", "e", "_", "Q", "1", "_",
                        "2", "0", "2", "5" >>
    /\ naming.input # <<>> /\ Head(naming.input) \in Whitespace /\ Generated # <<>>
         => Head(Generated) # "_"
    /\ naming.input # <<>> /\ naming.input[Len(naming.input)] \in Whitespace
       /\ Generated # <<>>
         => Generated[Len(Generated)] # "_"

\* What is left of the text after its extension and its special characters
\* are gone.
Filtered == DeleteSpecial(StripExtension(naming.input))

\* How often ch occurs in s.
Occurrences(s, ch) == Cardinality({k \in 1..Len(s) : s[k] = ch})

\* The number of maximal runs of whitespace in s.
WhitespaceRuns(s) ==
  Cardinality({k \in 1..Len(s) :
                 s[k] \in Whitespace /\ (k = 1 \/ s[k - 1] \notin Whitespace)})

\* s without its whitespace and underscores.
Solid(s) == SelectSeq(s, LAMBDA ch : ch \notin Whitespace \cup {"_"})

\* C21: the result of generateFolderName holds only letters, digits, hyphens
\* and underscores, and every maximal run of whitespace that survives the
\* character filter is one underscore of the result: the result has the
\* underscores of the text, one more per run, and nothing else changes.
FolderNameCharactersAndRuns ==
  naming.results # <<>> =>
    /\ \A k \in 1..Len(Generated) : Generated[k] \in Letters \cup Digits \cup {"-", "_"}
    /\ Occurrences(Generated, "_") = Occurrences(Filtered, "_") + WhitespaceRuns(Filtered)
    /\ Solid(Generated) = Solid(Filtered)

\* A run of two blanks between two kept characters became one underscore.
TwoBlanksBecameOneUnderscore ==
  /\ naming.results # <<>>
  /\ \E k \in 2..(Len(naming.input) - 2) :
       /\ naming.input[k] = " " /\ naming.input[k + 1] = " "
       /\ naming.input[k - 1] = "a" /\ naming.input[k + 2] = "1"
  /\ Generated = <<"a", "_", "1">>

\* The configuration keys a valid request makes its endpoint look up, in the
\* order of the lookups.
RequestKeys(h, r) ==
  CASE h = "uploadIntrastatPDF" ->
         IF r.marca = "COMPRA" THEN <<"intrastat_compras">> ELSE <<"intrastat_ventas">>
    [] h = "uploadInventarioPDF" -> <<"inventario">>
    [] h = "uploadSituacionSW" -> <<"situacion_pedidos_erp", "situacion_pedidos_sw">>
    [] h = "uploadNominasExcels" -> <<"nominas_asesorias", "nominas_nominas">>
    [] h = "uploadSituacionVersace" ->
         <<"situacion_pedidos_pdf", "situacion_pedidos_dirma", "situacion_pedidos_versace">>
    [] h = "uploadImgAlert" -> <<"imgs_alertas">>
    [] h = "uploadPedidoPdf" -> <<"versace_pedidos">>
    [] h = "uploadPrototypeExcel" ->
         IF r.marca = "STUART WEITZMAN" THEN <<"sw_prototipos">>
         ELSE <<"versace_prototipos">>
    [] OTHER -> <<>>

\* The positions of the request's keys that the configuration lacks.
MissingAt(h, r) ==
  {k \in 1..Len(RequestKeys(h, r)) : driveIds[RequestKeys(h, r)[k]] = NoId}

\* The first key of the request the configuration lacks.
FirstMissingKey(h, r) ==
  RequestKeys(h, r)[CHOOSE k \in MissingAt(h, r) : \A j \in MissingAt(h, r) : k <= j]

\* The calls issued to the image service (fetch and the reading of its
\* answer), which is not the store; only uploadPrototypeExcel makes them.
ImageServiceCalls ==
  IF handler = "uploadPrototypeExcel" THEN (IF call.idx < 2 THEN call.idx ELSE 2) ELSE 0

\* The calls issued to the store: folder resolutions, uploads, grants and
\* every other use-case call.
StoreCallsIssued == remoteCalls - ImageServiceCalls

\* The response is the one of a thrown configuration error.
IsConfigErrorResponse(resp) ==
  /\ resp.status = 500
  /\ "error" \in DOMAIN resp.body
  /\ Len(resp.body.error) = 2
  /\ resp.body.error[1] = "Falta ID de carpeta"

\* The request got as far as its configuration lookups: at once after
\* validation, in uploadPrototypeExcel after the image service answered.
LookupsReached ==
  handler = "uploadPrototypeExcel" => (call.kind = "json" /\ call.st = "fulfilled")

\* C22: a key missing from the configuration is an error exactly for the
\* requests that look it up: such a request never issues a store call and
\* is answered once with an error, the one of the first missing key it looks
\* up (unless the image service failed before the lookup was reached);
\* a request whose own keys are all present is never answered with a
\* configuration error, whichever other key is missing.
MissingKeyFatalAtFirstLookup ==
  ~RequestInvalid(handler, req) =>
    /\ Len(responses) <= 1
    /\ IF MissingAt(handler, req) # {}
       THEN /\ StoreCallsIssued = 0
            /\ fcalls = <<>> /\ tasks = <<>>
            /\ responses # <<>> =>
                 /\ responses[1].status >= 400
                 /\ pc = "done"
                 /\ LookupsReached =>
                      /\ responses[1] =
                           ErrorResponse(ConfigError(FirstMissingKey(handler, req)))
                      /\ IsConfigErrorResponse(responses[1])
       ELSE responses # <<>> => ~IsConfigErrorResponse(responses[1])

\* An Intrastat request for VENTA was answered with the configuration error
\* of intrastat_ventas, no call issued.
MissingVentasKeyAnswered ==
  /\ handler = "uploadIntrastatPDF"
  /\ ~RequestInvalid(handler, req)
  /\ req.marca = "VENTA"
  /\ driveIds["intrastat_ventas"] = NoId
  /\ responses = <<ErrorResponse(ConfigError("intrastat_ventas"))>>
  /\ remoteCalls = 0

\* The awaited call of a non-batch endpoint is a store call (not one to the
\* image service) and it was rejected.
StoreCallRejected ==
  /\ handler \in SeqHandlers
  /\ call.kind \notin {"none", "fetch", "json"}
  /\ call.st = "rejected"

\* C23: in every non-batch endpoint a store error is answered with the
\* status code the error carries, and with 500 when it carries none.
StoreErrorStatusPassedOn ==
  (StoreCallRejected /\ responses # <<>>) =>
    responses[1].status = (IF call.out.code # NoCode THEN call.out.code ELSE 500)

\* uploadSituacionSW went through its loop and its planning upload, and
\* answered.
SWBatchAnswered ==
  /\ handler = "uploadSituacionSW"
  /\ responses # <<>>
  /\ tasks # <<>> /\ \A i \in 1..Len(tasks) : Settled(tasks[i])
  /\ call.st = "fulfilled"

\* C24: the status of uploadSituacionSW follows the outcomes of its erpSusy
\* uploads: 201 only when none failed, 500 when all failed, 207 when some
\* succeeded and some failed.
SWStatusFromCounts ==
  SWBatchAnswered =>
    responses[1].status =
      (IF Rejected(tasks) = {} THEN 201 ELSE IF Fulfilled(tasks) = {} THEN 500 ELSE 207)

\* C25: in the concurrent PDF batches the uploads are issued all at once:
\* none has settled when the last one is issued, and as long as an upload is
\* in flight it can be the next to settle, whatever the others did, so the
\* uploads can complete in every order.
UploadsIndependent ==
  (handler \in PdfBatchHandlers /\ tasks # <<>>) =>
    /\ Len(tasks) = Len(ReqFiles(req))
    /\ settleOrder = <<>> => \A i \in 1..Len(tasks) : tasks[i].st = "inflight"
    /\ \A i \in 1..Len(tasks) : tasks[i].st = "inflight" => ENABLED TaskSettlesAt(i)

\* Three uploads were in flight together and completed last to first.
UploadsCompletedInReverse ==
  /\ handler \in PdfBatchHandlers
  /\ Len(tasks) = 3
  /\ settleOrder = <<3, 2, 1>>

\* An upload the handler is waiting for has not settled.
AwaitedUploadInFlight ==
  /\ handler \in PdfBatchHandlers \cup {"uploadSituacionSW"}
  /\ pc \in {"awaitUploads", "loop"}
  /\ \E i \in 1..Len(tasks) : tasks[i].st = "inflight"

DayFolderEndpoints == PdfBatchHandlers \cup {"uploadSituacionSW"}

\* C27: in uploadIntrastatPDF, uploadInventarioPDF and uploadSituacionSW the
\* day folder of the PDFs is resolved once per request, however many files
\* there are: one resolution is issued, it has fulfilled before the first
\* upload is issued, every PDF upload targets the id it yielded, and no
\* other call is issued per file.
DayFolderResolvedOnce ==
  handler \in DayFolderEndpoints =>
    /\ Len(fcalls) <= 1
    /\ fcalls # <<>> => /\ fcalls[1].path = <<DayFolderName>>
                        /\ fcalls[1].parent = driveIds[RequestKeys(handler, req)[1]]
    /\ tasks # <<>> =>
         /\ Len(fcalls) = 1 /\ fcalls[1].st = "fulfilled"
         /\ \A i \in 1..Len(tasks) :
              tasks[i].folder = <<RequestKeys(handler, req)[1], DayFolderName>>
    /\ remoteCalls = Len(fcalls) + Len(tasks) + (IF call.kind = "none" THEN 0 ELSE 1)

\* Three PDFs of one Intrastat request went to the one day folder resolved
\* for them.
ThreePdfsOneDayFolder ==
  /\ handler = "uploadIntrastatPDF"
  /\ Len(tasks) = 3 /\ \A i \in 1..3 : tasks[i].st = "fulfilled"
  /\ Len(fcalls) = 1
  /\ remoteCalls = 4

\* The files upload i has in the store.
FilesOf(i, files) == {f \in files : f.upload = i}

\* C28: uploadFile makes its store calls in the order create, grant, get,
\* each after the one before fulfilled: a file is created non-public by an
\* upload in flight, it becomes public only after it was created, and the
\* upload fulfils only with its file public; a rejection settles the upload
\* at once, leaves the file as it is and no later call touches it.
UploadFileInOrder ==
  /\ [](\A i \in 1..Len(tasks) :
          /\ Cardinality(FilesOf(i, driveFiles)) <= 1
          /\ tasks[i].st = "fulfilled" => StoredFile(i, TRUE) \in driveFiles)
  /\ [][\A i \in 1..Len(tasks) :
          /\ Len(tasks') = Len(tasks)
          /\ (FilesOf(i, driveFiles) = {} /\ FilesOf(i, driveFiles') # {})
               => (tasks[i].st = "inflight" /\ FilesOf(i, driveFiles') = {StoredFile(i, FALSE)})
          /\ (StoredFile(i, TRUE) \notin driveFiles /\ StoredFile(i, TRUE) \in driveFiles')
               => (tasks[i].st = "inflight" /\ StoredFile(i, FALSE) \in driveFiles)
          /\ (tasks[i].st = "inflight" /\ tasks'[i].st = "fulfilled")
               => StoredFile(i, TRUE) \in driveFiles
          /\ (tasks[i].st = "inflight" /\ tasks'[i].st = "rejected")
               => FilesOf(i, driveFiles') = FilesOf(i, driveFiles)
          /\ tasks[i].st # "inflight"
               => (tasks'[i] = tasks[i] /\ FilesOf(i, driveFiles') = FilesOf(i, driveFiles))
       ]_vars

\* One upload returned its file and another was rejected by files.get, its
\* file left public in the store.
UploadRejectedAtGet ==
  \E i, j \in 1..Len(tasks) :
    /\ tasks[i].st = "rejected" /\ StoredFile(i, TRUE) \in driveFiles
    /\ tasks[j].st = "fulfilled"

\* The names of the files that are not PDFs, in the order submitted.
NotPdfNames(files) ==
  LET bad == SelectSeq(files, LAMBDA f : f.mimetype # PdfMime)
  IN  [k \in 1..Len(bad) |-> bad[k].originalname]

\* The request is answered 400 and nothing was ever issued for it.
Rejected400NoCall ==
  /\ remoteCalls = 0 /\ fcalls = <<>> /\ tasks = <<>>
  /\ pc = "done" => (Len(responses) = 1 /\ responses[1].status = 400)

\* The marca checks of the endpoint, which precede the check of the media
\* types, pass.
MarcaPasses ==
  handler = "uploadIntrastatPDF" => req.marca \in {"COMPRA", "VENTA"}

\* C29 as stated: a PDF batch with a file that is not a PDF is answered 400
\* naming the invalid files, with no folder resolution and no upload; an
\* empty file list is answered 400 before any call.
InvalidBatchNamesFiles ==
  handler \in PdfBatchHandlers =>
    /\ req.files = <<>> => Rejected400NoCall
    /\ NotPdfNames(req.files) # <<>> =>
         /\ Rejected400NoCall
         /\ pc = "done" =>
              responses[1].body.error
                = <<"Todos los archivos deben ser PDF">> \o NotPdfNames(req.files)

\* C29: a PDF batch with a file that is not a PDF is answered 400 with no
\* folder resolution and no upload, not even for its valid files; the 400
\* names the invalid files unless the marca of an Intrastat request is
\* missing or unknown, which is answered first; an empty file list is
\* answered 400 before any call.
InvalidBatchAllOrNothing ==
  handler \in PdfBatchHandlers =>
    /\ req.files = <<>> =>
         /\ Rejected400NoCall
         /\ pc = "done" => responses[1].body.error = <<"Falta archivo(s)">>
    /\ NotPdfNames(req.files) # <<>> =>
         /\ Rejected400NoCall
         /\ (pc = "done" /\ MarcaPasses) =>
              responses[1].body.error
                = <<"Todos los archivos deben ser PDF">> \o NotPdfNames(req.files)

\* A batch of a PDF and two files that are none was answered 400 naming the
\* two, nothing issued for the PDF.
MixedBatchRejected ==
  /\ handler \in PdfBatchHandlers
  /\ MarcaPasses
  /\ Len(req.files) = 3
  /\ req.files[1].mimetype = PdfMime
  /\ Len(NotPdfNames(req.files)) = 2
  /\ pc = "done"
  /\ responses[1].status = 400
  /\ remoteCalls = 0

\* The subfolder of a category of payroll files, and the configured root its
\* year and month folders hang from.
CategoryFolder(field) ==
  CASE field = "archivosDetalle2" -> "RETENCIONES"
    [] field = "archivosDetalle1" -> "RESUMEN"
    [] field = "archivoResumen" -> "NOMINAS"

CategoryRoot(field) ==
  IF field = "archivoResumen" THEN "nominas_nominas" ELSE "nominas_asesorias"

\* C30: uploadNominasExcels issues no upload before the two year/month
\* folders and the three subfolders are resolved; when one of the five
\* resolutions fails no upload is ever issued; every file is uploaded to
\* the subfolder of its own category.
NominasUploadsAfterFiveFolders ==
  handler = "uploadNominasExcels" =>
    /\ tasks # <<>> =>
         /\ Len(fcalls) = 5
         /\ \A j \in 1..5 : fcalls[j].st = "fulfilled"
         /\ Len(tasks) = Len(req.archivosDetalle2) + Len(req.archivosDetalle1) + 1
    /\ (\E j \in 1..Len(fcalls) : fcalls[j].st = "rejected") => tasks = <<>>
    /\ \A i \in 1..Len(tasks) :
         tasks[i].folder
           = FolderIdOf(<<CategoryFolder(tasks[i].field)>>,
               FolderIdOf(<<req.anio, req.mes>>,
                          GetFolderId(driveIds, CategoryRoot(tasks[i].field))))

\* A payroll request with files of the three categories has its uploads
\* issued, to three different folders.
NominasThreeCategoriesIssued ==
  /\ handler = "uploadNominasExcels"
  /\ Len(tasks) = 3
  /\ {tasks[i].field : i \in 1..3}
       = {"archivosDetalle2", "archivosDetalle1", "archivoResumen"}
  /\ Cardinality({tasks[i].folder : i \in 1..3}) = 3

\* The logical key of a folder resolution.
FolderKey(c) == <<c.path, c.parent>>

\* C31: within one uploadNominasExcels request two folder resolutions that
\* are in flight together never have the same (name, parent) key, whatever
\* the configuration: the three parallel ones have pairwise distinct keys
\* and the second year/month resolution is issued after the first settled.
NominasResolutionsNeverShareKey ==
  handler = "uploadNominasExcels" =>
    /\ \A i, j \in 1..Len(fcalls) :
         (i # j /\ fcalls[i].st = "inflight" /\ fcalls[j].st = "inflight")
           => FolderKey(fcalls[i]) # FolderKey(fcalls[j])
    /\ Len(fcalls) >= 2 => fcalls[1].st = "fulfilled"
    /\ Len(fcalls) = 5 =>
         Cardinality({FolderKey(fcalls[j]) : j \in 3..5}) = 3

\* Both roots are one folder, both year/month resolutions gave the same
\* folder, and the three subfolder resolutions are in flight under it.
SameRootsThreeInFlight ==
  /\ handler = "uploadNominasExcels"
  /\ GetFolderId(driveIds, "nominas_asesorias") = GetFolderId(driveIds, "nominas_nominas")
  /\ Len(fcalls) = 5
  /\ fcalls[1].out = fcalls[2].out
  /\ \A j \in 3..5 : fcalls[j].st = "inflight" /\ fcalls[j].parent = fcalls[1].out

\* The ids of the uploads of `field` that succeeded, in the order issued.
SucceededIds(field) ==
  LET idx == SelectSeq([i \in 1..Len(tasks) |-> i],
                       LAMBDA i : tasks[i].field = field /\ tasks[i].st = "fulfilled")
  IN  [k \in 1..Len(idx) |-> <<field, idx[k]>>]

\* The upload of archivoResumen, the last one issued.
ResumenUpload == tasks[Len(tasks)]

\* C32: once the folders of an uploadNominasExcels request are resolved,
\* the answer is 200 exactly when the upload of archivoResumen succeeded,
\* however many detail uploads failed, and ids_retenciones and ids_nominas
\* are then the ids of the archivosDetalle2 and archivosDetalle1 uploads
\* that succeeded, in input order; a failed archivoResumen upload is
\* answered with its error.
NominasDetailFailuresSwallowed ==
  (handler = "uploadNominasExcels" /\ tasks # <<>> /\ pc = "done") =>
    /\ Len(responses) = 1
    /\ responses[1].status = 200 <=> ResumenUpload.st = "fulfilled"
    /\ ResumenUpload.st = "rejected" =>
         /\ responses[1].status = (IF ResumenUpload.out.code = NoCode THEN 500
                                   ELSE ResumenUpload.out.code)
         /\ "error" \in DOMAIN responses[1].body
    /\ ResumenUpload.st = "fulfilled" =>
         /\ responses[1].body.id_excel_resumen = <<"archivoResumen", Len(tasks)>>
         /\ responses[1].body.ids_retenciones = SucceededIds("archivosDetalle2")
         /\ responses[1].body.ids_nominas = SucceededIds("archivosDetalle1")

\* Of two archivosDetalle2 files the first failed to upload and the only
\* archivosDetalle1 file failed too; the request is answered 200 with the
\* id of the second.
NominasAnsweredDespiteFailedDetails ==
  /\ handler = "uploadNominasExcels"
  /\ pc = "done"
  /\ Len(req.archivosDetalle2) = 2
  /\ Len(req.archivosDetalle1) = 1
  /\ Len(tasks) = 4
  /\ tasks[1].st = "rejected"
  /\ tasks[2].st = "fulfilled"
  /\ tasks[3].st = "rejected"
  /\ responses[1].status = 200
  /\ responses[1].body.ids_retenciones = << <<"archivosDetalle2", 2>> >>
  /\ responses[1].body.ids_nominas = <<>>

\* The request fields of uploadSituacionVersace in the order of the claim.
VersaceOrder == <<"informeFechas", "dirma", "informePasado", "informeNuevo">>

\* The awaited calls of uploadSituacionVersace: the day folder of the PDF,
\* then the four uploads; FirstAwait is the position of the first in the
\* handler's steps.
VersaceScript == Script("uploadSituacionVersace", req)
FirstAwait == StopAt(VersaceScript, FullConfig, 1)
LastAwait == Len(VersaceScript)

\* The uploads of the request that have completed, by the ids they returned.
VersaceUploaded ==
  {locals.values[k].id : k \in 2..Len(locals.values)}

\* C33: uploadSituacionVersace uploads informeFechas, dirma, informePasado
\* and informeNuevo one after the other in that order, each issued only
\* when everything before it has fulfilled; the first failure is answered
\* with its error at once, no later step is started and no further call is
\* made, the results of the earlier uploads are kept; 201 is sent only when
\* all four succeeded.
VersaceUploadsInSequence ==
  (handler = "uploadSituacionVersace" /\ call.st # "idle") =>
    /\ call.idx \in FirstAwait..LastAwait
    /\ remoteCalls = call.idx - FirstAwait + 1
    /\ call.idx > FirstAwait =>
         Script(handler, req)[call.idx].file = VersaceOrder[call.idx - FirstAwait]
    /\ (pc = "awaitCall" \/ call.st = "rejected") =>
         /\ Len(locals.values) = call.idx - FirstAwait
         /\ \A k \in 2..Len(locals.values) : locals.values[k].id[2] = FirstAwait + k - 1
         /\ Cardinality(VersaceUploaded) = Len(locals.values) - 1 \/ locals.values = <<>>
    /\ (call.st = "rejected" /\ pc # "done") => HandlerReady
    /\ pc = "done" =>
         /\ Len(responses) = 1
         /\ call.st \in {"fulfilled", "rejected"}
         /\ responses[1].status = 201 <=>
              (call.idx = LastAwait /\ call.st = "fulfilled"
               /\ Cardinality(VersaceUploaded) = 4)
         /\ call.st = "rejected" =>
              /\ responses[1].status = (IF call.out.code = NoCode THEN 500
                                        ELSE call.out.code)
              /\ "error" \in DOMAIN responses[1].body

\* The upload of informePasado failed after informeFechas and dirma were
\* uploaded: an error is the answer, informeNuevo was never started.
VersaceFailedAtThirdUpload ==
  /\ handler = "uploadSituacionVersace"
  /\ pc = "done"
  /\ call.st = "rejected"
  /\ Script(handler, req)[call.idx].file = "informePasado"
  /\ Cardinality(VersaceUploaded) = 2
  /\ remoteCalls = 4
  /\ responses[1].status = 403

\* The planningCliente upload of uploadSituacionSW has been issued.
PlanningStarted == call.st # "idle"

\* C34: in uploadSituacionSW the planningCliente upload is issued only when
\* every erpSusy upload has been issued and has settled, and it is issued
\* whatever the number of failed PDFs; when it fails the answer is an error
\* that carries nothing but the error; when it succeeds ids_pdfs are the
\* ids of exitosos in input order and exitosos and fallidos together count
\* the erpSusy files.
SWPlanningAfterPdfs ==
  handler = "uploadSituacionSW" =>
    /\ PlanningStarted =>
         /\ Len(tasks) = Len(req.erpSusy)
         /\ \A i \in 1..Len(tasks) : tasks[i].st \in {"fulfilled", "rejected"}
    /\ (Len(tasks) = Len(req.erpSusy) /\ tasks # <<>>
        /\ \A i \in 1..Len(tasks) : tasks[i].st \in {"fulfilled", "rejected"}) =>
         \/ pc = "loop" /\ HandlerReady
         \/ PlanningStarted
    /\ (pc = "done" /\ PlanningStarted) =>
         /\ Len(responses) = 1
         /\ call.st = "rejected" =>
              /\ DOMAIN responses[1].body = {"error"}
              /\ responses[1].status = (IF call.out.code = NoCode THEN 500
                                        ELSE call.out.code)
         /\ call.st = "fulfilled" =>
              /\ responses[1].status = 201
              /\ responses[1].body.ids_pdfs
                   = [k \in 1..Len(responses[1].body.exitosos) |->
                        responses[1].body.exitosos[k].id]
              /\ responses[1].body.ids_pdfs = SucceededIds("erpSusy")
              /\ Len(responses[1].body.exitosos) + Len(responses[1].body.fallidos)
                   = Len(req.erpSusy)

\* The first of two erpSusy PDFs was uploaded, the second failed, and the
\* planningCliente upload failed: the answer is the error alone.
SWPlanningFailedAfterUploads ==
  /\ handler = "uploadSituacionSW"
  /\ pc = "done"
  /\ Len(tasks) = 2
  /\ tasks[1].st = "fulfilled"
  /\ tasks[2].st = "rejected"
  /\ call.st = "rejected"
  /\ DOMAIN responses[1].body = {"error"}

\* Nothing the request issued is still in flight.
NothingInFlight ==
  /\ \A i \in 1..Len(fcalls) : fcalls[i].st # "inflight"
  /\ \A i \in 1..Len(tasks) : tasks[i].st # "inflight"
  /\ call.st # "inflight"

\* C35: every handler of GoogleController answers a request exactly once on
\* every path: there are never two responses, a response once sent is never
\* followed or changed by anything that settles later (a rejected
\* permission grant included), and when nothing the request issued is in
\* flight any more the handler either has answered or is about to run.
ExactlyOneResponse ==
  /\ [](Len(responses) <= 1)
  /\ [](pc = "done" <=> Len(responses) = 1)
  /\ [](NothingInFlight => (HandlerReady \/ Len(responses) = 1))
  /\ [][responses # <<>> => (responses' = responses /\ pc' = "done")]_vars

\* uploadPrototypeExcel answered 201, then every grant settled and one of
\* them failed: there is still the one response.
OneResponseAfterGrantFailed ==
  /\ handler = "uploadPrototypeExcel"
  /\ tasks # <<>>
  /\ NothingInFlight
  /\ \E i \in 1..Len(tasks) : tasks[i].st = "rejected"
  /\ Len(responses) = 1
  /\ responses[1].status = 201

\* The folders the store held when the query of call c was answered that
\* the call may be given: its name, its parent, not trashed.
Eligible(c) ==
  {i \in 1..resolves[c].seen :
     /\ store[i].name = resolves[c].name
     /\ store[i].parent = resolves[c].parent
     /\ store[i].trashed = FALSE}

\* C36: the lookup of a resolution ignores trashed folders and folders of
\* the name under another parent: when no folder of the name that is not
\* trashed lies under the parent, nothing is found and the resolution
\* creates a new folder and returns its id; an id that was found is the id
\* of a folder of that name under that parent that is not trashed.
LookupExactAndNotTrashed ==
  \A c \in Callers :
    /\ resolves[c].pc = "creating" => Eligible(c) = {}
    /\ resolves[c].pc = "done" =>
         IF Eligible(c) = {}
         THEN /\ resolves[c].result > resolves[c].seen
              /\ store[resolves[c].result].by = c
              /\ store[resolves[c].result].name = resolves[c].name
              /\ store[resolves[c].result].parent = resolves[c].parent
              /\ store[resolves[c].result].trashed = FALSE
         ELSE resolves[c].result \in Eligible(c)

\* The store held a trashed X under the parent and an X under another
\* parent; resolving X under the parent created a third folder.
ResolvedPastTrashedAndForeign ==
  \E c \in Callers :
    /\ resolves[c].pc = "done"
    /\ resolves[c].name = "X"
    /\ Len(store) >= 3
    /\ store[1] = Folder("X", resolves[c].parent, TRUE, 0)
    /\ store[2] = Folder("X", OtherRoot, FALSE, 0)
    /\ resolves[c].result = 3
    /\ store[3].by = c

\* The build has been called and has not returned or thrown yet.
Building(b) == builds[b].pc = "creating"

\* The node whose create the build is waiting for has no children.
AtLeaf(b) ==
  LET f == builds[b].stack[Len(builds[b].stack)]
  IN  \A j \in 1..builds[b].spec.n :
        j = 1 \/ builds[b].spec.parent[j] # f.node

\* C37: with every create call settling, every call of
\* createRecursiveFolders has ended from some point on, for every tree
\* spec; it never requests more creates than the spec
\* has nodes; and when the create of a node without children is answered
\* no activation is added for it.
TreeBuildTerminates ==
  /\ <>[](\A b \in Builders : ~Building(b))
  /\ [](\A b \in Builders :
          Len(NodesOf(builds[b].log, "req")) <= builds[b].spec.n)
  /\ [][\A b \in Builders :
          (Building(b) /\ AtLeaf(b) /\ builds'[b] # builds[b])
            => Len(builds'[b].stack) <= Len(builds[b].stack)]_vars

\* A build of a spec of four nodes in a chain has returned after four
\* creates.
TreeChainBuilt ==
  /\ builds[1].pc = "done"
  /\ builds[1].spec.n = 4
  /\ \A k \in 2..4 : builds[1].spec.parent[k] = k - 1
  /\ Len(NodesOf(builds[1].log, "req")) = 4

\* The Authorization header of the request, empty when there is none.
AuthHeader ==
  IF "authorization" \in DOMAIN req.headers THEN req.headers.authorization ELSE <<>>

\* What follows "Bearer " in the header up to the next blank or the end.
TokenSent ==
  LET h == AuthHeader
      stop == IF \E k \in 3..Len(h) : h[k] = " "
              THEN CHOOSE k \in 3..Len(h) : h[k] = " " /\ \A j \in 3..(k - 1) : h[j] # " "
              ELSE Len(h) + 1
  IN  SubSeq(h, 3, stop - 1)

\* The header is there, starts with "Bearer " and its token verifies.
Authenticated ==
  /\ Len(AuthHeader) >= 2
  /\ AuthHeader[1] = "Bearer" /\ AuthHeader[2] = " "
  /\ TokenSent = <<"good">>

\* C38: authMiddleware calls next, with the decoded payload in req.user,
\* exactly when the Authorization header is present, starts with "Bearer "
\* and the token verifies; otherwise it answers 401 and does not call next;
\* it never answers and calls next for the same request.
AuthLetsThroughIffVerified ==
  handler = "authMiddleware" =>
    /\ nextCalls <= 1 /\ Len(responses) <= 1
    /\ ~(nextCalls > 0 /\ responses # <<>>)
    /\ pc = "done" =>
         IF Authenticated
         THEN /\ nextCalls = 1
              /\ req.user = <<[sub |-> <<"good">>]>>
              /\ responses = <<>>
         ELSE /\ nextCalls = 0
              /\ req.user = <<>>
              /\ Len(responses) = 1
              /\ responses[1].status = 401

\* A request with the header "Bearer good" was let through.
BearerTokenLetThrough ==
  /\ handler = "authMiddleware"
  /\ pc = "done"
  /\ AuthHeader = <<"Bearer", " ", "good">>
  /\ nextCalls = 1
  /\ responses = <<>>

\* A date as a number that grows with the calendar.
DayNumber(v) == (v[2] * 12 + v[3]) * 31 + v[4]

\* The date is written YYYY-MM-DD and is a day of the calendar.
RealIsoDate(v) ==
  v[1] = Iso /\ v[3] \in 1..12 /\ v[4] >= 1 /\ v[4] <= DaysIn(v[2], v[3])

\* A parameter of the request is missing or breaks one of the rules.
NotasParamsInvalid ==
  IF \E f \in DOMAIN req.body : req.body[f] = <<>> THEN TRUE
  ELSE \/ ~RealIsoDate(req.body.fechaDesde)
       \/ ~RealIsoDate(req.body.fechaHasta)
       \/ DayNumber(req.body.fechaDesde) > DayNumber(req.body.fechaHasta)
       \/ req.body.seccion # <<"12">>
       \/ req.body.temporada # <<"12">>

\* C39: GetNotasProduccionUseCase.execute validates before it calls the
\* ERP: with a missing or invalid parameter the ERP is never called and the
\* controller answers 400, with the violated rules when execute was reached;
\* a failure of the ERP call is answered 500.
NotasValidatedBeforeErp ==
  handler = "getNotasProduccion" =>
    /\ NotasParamsInvalid =>
         /\ remoteCalls = 0 /\ call.st = "idle"
         /\ pc = "done" =>
              /\ Len(responses) = 1
              /\ responses[1].status = 400
              /\ (\A f \in DOMAIN req.body : req.body[f] # <<>>) =>
                   /\ responses[1].body.message[1] = ValidationMark
                   /\ Len(responses[1].body.message) >= 2
    /\ (pc = "done" /\ call.st = "rejected") =>
         (Len(responses) = 1 /\ responses[1].status = 500)

====
